---- MODULE Spec2Model ----
(***************************************************************************)
(* Cephalometric analysis pipeline: landmark estimator (demo_inference),   *)
(* clinical metrics (clinical_metrics), malocclusion classifier            *)
(* (multimodal_classifier) and the orchestrator (integration_pipeline).    *)
(*                                                                         *)
(* Numbers.  Python floats are modelled in fixed point:                    *)
(*   normalized template coordinates   1e-5 of the image dimension         *)
(*   pixel coordinates                 whole pixels                        *)
(*   angles                            millidegrees (reported: centideg.)  *)
(*   probabilities, weights            1e-6                                *)
(* A Python dict is a function; its iteration order is the order of       *)
(* LANDMARK_NAMES restricted to its keys.  A Python call evaluates to a    *)
(* record [exc, msg, val]: exc = "None" when it returns val, else the name *)
(* of the exception class it raises.                                       *)
(***************************************************************************)
EXTENDS Integers, Sequences, FiniteSets, TLC

VARIABLES
    inference_engine,   \* self.inference_engine: [present, seed, demo_config, mean_shape]
    classifier,         \* self.classifier: [present, seed]
    init_error,         \* self._init_error: [set, type, message]
    clf_init_error,     \* self._clf_init_error: [set, type, message]
    stats,              \* self.stats: [total_runs, has_last, last_run_time, average_processing_time]
    hashseed,           \* the interpreter's string-hash key of this process
    ret,                \* the last run / run_batch call: [op, args, raised, out, trace]
    est,                \* the last direct predict_landmarks call on the estimator
    unit,               \* the last direct call of compute_all or of predict
    threads,            \* the worker threads calling run on this pipeline concurrently
    peer                \* the same pipeline in a second, separately started process

vars == <<inference_engine, classifier, init_error, clf_init_error, stats,
          hashseed, ret, est, unit, threads, peer>>

(***************************************************************************)
(* Arithmetic helpers                                                      *)
(***************************************************************************)
Abs(a) == IF a < 0 THEN -a ELSE a

Min(a, b) == IF b < a THEN b ELSE a

Max(a, b) == IF b > a THEN b ELSE a

\* a / b rounded to the nearest integer (b > 0), halves up
RoundDiv(a, b) == (2 * a + b) \div (2 * b)

NormUnit == 100 * 1000

Ok(v) == [exc |-> "None", msg |-> "", val |-> v]

Raise(t, m) == [exc |-> t, msg |-> m, val |-> <<>>]

(***************************************************************************)
(* demo_inference.py                                                       *)
(***************************************************************************)
LANDMARK_NAMES ==
    << "N", "S", "Ar", "Or", "Po", "A", "B", "U1", "Ls", "Pog'",
       "Go", "Pog", "Me", "ANS", "PNS", "Gn", "L1", "Li", "Pn" >>

NameSet == { LANDMARK_NAMES[i] : i \in 1..Len(LANDMARK_NAMES) }

\* iteration order of a dict whose keys are landmark names
Keys(d) == SelectSeq(LANDMARK_NAMES, LAMBDA n : n \in DOMAIN d)

IndexOf(seq, n) == CHOOSE i \in 1..Len(seq) : seq[i] = n

EmptyDict == [n \in {} |-> <<0, 0>>]

\* a dict as an explicit table of its items
Dict(f) == f @@ EmptyDict

\* the canonical ("demo") shape measured on the reference image
create_demo_image_from_reference ==
    ("N" :> <<58500, 19200>>) @@ ("S" :> <<42500, 31500>>) @@
    ("Ar" :> <<38500, 44500>>) @@ ("Or" :> <<51500, 31800>>) @@
    ("Po" :> <<34500, 35500>>) @@ ("A" :> <<63500, 48500>>) @@
    ("B" :> <<60500, 62500>>) @@ ("U1" :> <<66700, 52800>>) @@
    ("Ls" :> <<72500, 51500>>) @@ ("Pog'" :> <<73500, 69500>>) @@
    ("Go" :> <<40500, 60500>>) @@ ("Pog" :> <<65500, 66500>>) @@
    ("Me" :> <<60500, 70500>>) @@ ("ANS" :> <<64500, 46500>>) @@
    ("PNS" :> <<48500, 47500>>) @@ ("Gn" :> <<62500, 69500>>) @@
    ("L1" :> <<64500, 58500>>) @@ ("Li" :> <<69500, 58500>>) @@
    ("Pn" :> <<75500, 45500>>)

(***************************************************************************)
(* Images.  An image is characterised by its size, the statistics of its   *)
(* grayscale rendering and the SHA-256 of its 256x256 grayscale downsample *)
(* (sha): two images of different size can share a sha.                    *)
(***************************************************************************)
Image(w, h, mean, stddev, edge, sha) ==
    [w |-> w, h |-> h, mean |-> mean, stddev |-> stddev, edge |-> edge, sha |-> sha]

_is_typical_cephalogram(width, height) ==
    LET size_ok == width >= 400 /\ height >= 400
        \* |w/h - t| < 0.3 for t in 1.2, 1.33, 1.4
        near(t100) == Abs(100 * width - t100 * height) < 30 * height
    IN  size_ok /\ (near(120) \/ near(133) \/ near(140))

analyze_image_characteristics(pil_image) ==
    [ size |-> <<pil_image.w, pil_image.h>>,
      aspect_ratio |-> [num |-> pil_image.w, den |-> pil_image.h],
      brightness |-> [mean |-> pil_image.mean, stddev |-> pil_image.stddev],
      edge_intensity |-> pil_image.edge,
      is_typical_ceph |-> _is_typical_cephalogram(pil_image.w, pil_image.h) ]

_ensure_anatomical_consistency(landmarks) ==
    LET has(n) == n \in DOMAIN landmarks
        \* 1. Frankfort horizontal: level Or and Po when they differ by > 0.05
        frankfort(l) ==
            IF has("Or") /\ has("Po") /\ Abs(l["Or"][2] - l["Po"][2]) > 5000
            THEN LET avg_y == (l["Or"][2] + l["Po"][2]) \div 2
                 IN  [l EXCEPT !["Or"] = <<@[1], avg_y>>, !["Po"] = <<@[1], avg_y>>]
            ELSE l
        \* 2. N is topmost of S, Or, Po
        nasion(c1) ==
            IF has("N")
            THEN Dict([n \in DOMAIN c1 |->
                         IF n \in {"S", "Or", "Po"} /\ c1[n][2] < c1["N"][2]
                         THEN <<c1[n][1], c1["N"][2] + 2000>> ELSE c1[n]])
            ELSE c1
        \*    Me is bottommost of Go, B, Pog, Gn
        menton(c2) ==
            IF has("Me")
            THEN Dict([n \in DOMAIN c2 |->
                         IF n \in {"Go", "B", "Pog", "Gn"} /\ c2[n][2] > c2["Me"][2]
                         THEN <<c2[n][1], c2["Me"][2] - 2000>> ELSE c2[n]])
            ELSE c2
        \* 3. Po lies left of Or
        porion(c3) ==
            IF has("Po") /\ has("Or") /\ c3["Po"][1] > c3["Or"][1]
            THEN [c3 EXCEPT !["Po"] = <<c3["Or"][1] - 5000, @[2]>>]
            ELSE c3
    IN  porion(menton(nasion(frankfort(landmarks))))

adaptive_landmark_adjustment(normalized_landmarks, image_chars) ==
    LET ar == image_chars.aspect_ratio
        mean == image_chars.brightness.mean
        \* 1. aspect ratio: > 1.5 compresses the anterior landmarks in x,
        \*    < 1.1 compresses every landmark in y
        by_aspect(l) ==
            Dict([n \in DOMAIN l |->
                    IF 2 * ar.num > 3 * ar.den
                    THEN IF n \in {"Pn", "Ls", "Li", "A", "B", "ANS"}
                         THEN <<RoundDiv(l[n][1] * 9, 10), l[n][2]>> ELSE l[n]
                    ELSE IF 10 * ar.num < 11 * ar.den
                         THEN <<l[n][1], RoundDiv(l[n][2] * 95, 100)>>
                         ELSE l[n]])
        \* 2. brightness: dark (< 60) lifts S, ANS, PNS; bright (> 180) moves N, A, B, Pog
        by_brightness(l) ==
            Dict([n \in DOMAIN l |->
                    IF mean < 60
                    THEN IF n \in {"S", "ANS", "PNS"}
                         THEN <<l[n][1], RoundDiv(l[n][2] * 98, 100)>> ELSE l[n]
                    ELSE IF mean > 180
                         THEN IF n \in {"N", "A", "B", "Pog"}
                              THEN <<RoundDiv(l[n][1] * 102, 100), l[n][2]>> ELSE l[n]
                         ELSE l[n]])
    IN  _ensure_anatomical_consistency(by_brightness(by_aspect(normalized_landmarks)))

hash_image(pil_image) == pil_image.sha

\* Variant of the match that also accepts any image shaped like a cephalogram
tolerant_hash_matching(pil_image, demo_hash) ==
    \/ hash_image(pil_image) = demo_hash
    \/ _is_typical_cephalogram(pil_image.w, pil_image.h)

intelligent_hash_matching(pil_image, demo_hash) == hash_image(pil_image) = demo_hash

scale_normalized_landmarks(normalized_landmarks, image_width, image_height) ==
    Dict([n \in DOMAIN normalized_landmarks |->
        << RoundDiv(normalized_landmarks[n][1] * image_width, NormUnit),
           RoundDiv(normalized_landmarks[n][2] * image_height, NormUnit) >>])

(***************************************************************************)
(* np.random.RandomState(seed).normal: the k-th standard normal draw of a  *)
(* generator seeded with seed, in 1/1000.  A fixed function of (seed, k):  *)
(* a multiplicative mix indexing a table of normal quantiles.              *)
(***************************************************************************)
NormalQuantiles ==
    << -2500, -1534, -1150, -887, -674, -489, -319, -157,
       157, 319, 489, 674, 887, 1150, 1534, 2500 >>

RandomState_normal(seed, k) ==
    NormalQuantiles[((((seed % 9973) * 7919 + k * 10473 + 12345) \div 7) % 16) + 1]

add_intelligent_jitter(points, image_chars, sigma_base, seed) ==
    LET \* quality_factor = min(2.0, max(0.5, edge_intensity / 30.0)), in 1/1000
        quality_factor == Min(2000, Max(500, (image_chars.edge_intensity * 1000) \div 30))
        local_sigma(adaptive_sigma, n) ==
            IF n \in {"N", "Me", "Go"} THEN (adaptive_sigma * 7) \div 10
            ELSE IF n \in {"Or", "Po", "PNS"} THEN (adaptive_sigma * 13) \div 10
            ELSE adaptive_sigma
        \* the i-th landmark of the dict takes draws 2i-1 and 2i
        draw(sigma, i, k) == RoundDiv(sigma * RandomState_normal(seed, 2 * i - k), 1000 * 1000)
        moved(p, sigma, i) == <<p[1] + draw(sigma, i, 1), p[2] + draw(sigma, i, 0)>>
        jitter(adaptive_sigma, order) ==
            Dict([n \in DOMAIN points |->
                    moved(points[n], local_sigma(adaptive_sigma, n), IndexOf(order, n))])
    IN  jitter((sigma_base * (2000 - quality_factor)) \div 1000, Keys(points))

\* Variant of the clamp that keeps points inside the image but forgets the margin
clamp_points_without_margin(points, image_width, image_height, margin) ==
    Dict([n \in DOMAIN points |->
            << Max(0, Min(points[n][1], image_width)),
               Max(0, Min(points[n][2], image_height)) >>])

clamp_points_to_image(points, image_width, image_height, margin) ==
    Dict([n \in DOMAIN points |->
        << Max(margin, Min(points[n][1], image_width - margin)),
           Max(margin, Min(points[n][2], image_height - margin)) >>])

(***************************************************************************)
(* similarity_transform_2d.  With s = src_anchor2 - src_anchor1 and        *)
(* d = dst_anchor2 - dst_anchor1, scale*cos(rotation) = (s.d)/|s|^2 and    *)
(* scale*sin(rotation) = (s x d)/|s|^2, so the rotation and scaling of     *)
(* (tx, ty) is computed without sqrt/atan2; the result is rounded to the   *)
(* pixel.                                                                  *)
(***************************************************************************)
\* a transform that scales and rotates about the first source anchor and
\* leaves out the translation onto the first destination anchor
similarity_without_translation(points, src_anchor1, src_anchor2, dst_anchor1, dst_anchor2) ==
    LET src_dx == src_anchor2[1] - src_anchor1[1]
        src_dy == src_anchor2[2] - src_anchor1[2]
        src_d2 == src_dx * src_dx + src_dy * src_dy
        dst_dx == dst_anchor2[1] - dst_anchor1[1]
        dst_dy == dst_anchor2[2] - dst_anchor1[2]
        dot == src_dx * dst_dx + src_dy * dst_dy
        cross == src_dx * dst_dy - src_dy * dst_dx
    IN  IF src_d2 = 0 \/ dst_dx * dst_dx + dst_dy * dst_dy = 0
        THEN points
        ELSE Dict([n \in DOMAIN points |->
                <<RoundDiv(dot * (points[n][1] - src_anchor1[1])
                           - cross * (points[n][2] - src_anchor1[2]), src_d2),
                  RoundDiv(cross * (points[n][1] - src_anchor1[1])
                           + dot * (points[n][2] - src_anchor1[2]), src_d2)>>])

\* a transform without the early return for coincident destination anchors:
\* the scale is 0 and every point lands on the first destination anchor
similarity_without_guard(points, src_anchor1, src_anchor2, dst_anchor1, dst_anchor2) ==
    LET turned(p) == Dict([n \in DOMAIN p |->
                             <<p[n][1] + dst_anchor1[1], p[n][2] + dst_anchor1[2]>>])
    IN  IF src_anchor1 = src_anchor2 THEN points
        ELSE turned(similarity_without_translation(points, src_anchor1, src_anchor2,
                                                   dst_anchor1, dst_anchor2))

similarity_transform_2d(points, src_anchor1, src_anchor2, dst_anchor1, dst_anchor2) ==
    LET src_dx == src_anchor2[1] - src_anchor1[1]
        src_dy == src_anchor2[2] - src_anchor1[2]
        src_d2 == src_dx * src_dx + src_dy * src_dy
        dst_dx == dst_anchor2[1] - dst_anchor1[1]
        dst_dy == dst_anchor2[2] - dst_anchor1[2]
        dst_d2 == dst_dx * dst_dx + dst_dy * dst_dy
        dot == src_dx * dst_dx + src_dy * dst_dy
        cross == src_dx * dst_dy - src_dy * dst_dx
    IN  IF src_d2 = 0 \/ dst_d2 = 0
        THEN points
        ELSE Dict([n \in DOMAIN points |->
                LET tx == points[n][1] - src_anchor1[1]
                    ty == points[n][2] - src_anchor1[2]
                    rx == RoundDiv(dot * tx - cross * ty, src_d2)
                    ry == RoundDiv(cross * tx + dot * ty, src_d2)
                IN  <<rx + dst_anchor1[1], ry + dst_anchor1[2]>>])

(***************************************************************************)
(* Reference resources (JSON files).  status: "ok" parses, "missing" does  *)
(* not exist, "corrupt" is not JSON.  A parsed file may lack its           *)
(* "landmarks" key (has_landmarks) and its "image_sha256" key (sha = "").  *)
(***************************************************************************)
Resource(status, has_landmarks, landmarks, sha) ==
    [status |-> status, has_landmarks |-> has_landmarks,
     landmarks |-> landmarks, image_sha256 |-> sha]

load_json_config(file) ==
    IF file.status = "missing" THEN Raise("FileNotFoundError", "config file not found")
    ELSE IF file.status = "corrupt" THEN Raise("JSONDecodeError", "invalid JSON")
    ELSE Ok(file)

NoEngine ==
    [present |-> FALSE, seed |-> 0,
     demo_config |-> Resource("missing", FALSE, EmptyDict, ""),
     mean_shape |-> Resource("missing", FALSE, EmptyDict, "")]

\* ImprovedDemoInference.__init__
ImprovedDemoInference(demo_config_file, mean_shape_file, seed) ==
    LET dc == load_json_config(demo_config_file)
        ms == load_json_config(mean_shape_file)
    IN  IF dc.exc # "None" THEN Raise(dc.exc, dc.msg)
        ELSE IF ms.exc # "None" THEN Raise(ms.exc, ms.msg)
        ELSE Ok([present |-> TRUE, seed |-> seed,
                 demo_config |-> demo_config_file, mean_shape |-> mean_shape_file])

(***************************************************************************)
(* anchors: [none, pts].  none models anchors=None; pts is the dict.       *)
(***************************************************************************)
NoAnchors == [none |-> TRUE, pts |-> EmptyDict]

Anchors(pts) == [none |-> FALSE, pts |-> pts]

\* "if anchors and 'Or' in anchors and 'Po' in anchors"
anchors_given(anchors) ==
    /\ ~anchors.none
    /\ DOMAIN anchors.pts # {}
    /\ "Or" \in DOMAIN anchors.pts
    /\ "Po" \in DOMAIN anchors.pts

JitterSigmaBase == 1500

ClampMargin == 5

\* the landmarks of predict_landmarks before jitter and clamping, and the mode
resolve_mode(self, pil_image, anchors) ==
    LET width == pil_image.w
        height == pil_image.h
        \* step 4: anchor correction of the scaled template
        corrected(landmarks) ==
            IF anchors_given(anchors)
            THEN IF "Or" \notin DOMAIN landmarks THEN Raise("KeyError", "Or")
                 ELSE IF "Po" \notin DOMAIN landmarks THEN Raise("KeyError", "Po")
                 ELSE Ok([landmarks |-> similarity_transform_2d(
                                            landmarks, landmarks["Or"], landmarks["Po"],
                                            anchors.pts["Or"], anchors.pts["Po"]),
                          mode |-> "manual_corrected"])
            ELSE Ok([landmarks |-> landmarks, mode |-> "adaptive_heuristic"])
    IN  IF intelligent_hash_matching(pil_image, self.demo_config.image_sha256)
        THEN IF ~self.demo_config.has_landmarks
             THEN Raise("KeyError", "landmarks")
             ELSE Ok([landmarks |-> scale_normalized_landmarks(
                                        self.demo_config.landmarks, width, height),
                      mode |-> "precomputed"])
        ELSE IF ~self.mean_shape.has_landmarks
             THEN Raise("KeyError", "landmarks")
             ELSE corrected(scale_normalized_landmarks(
                                adaptive_landmark_adjustment(
                                    self.mean_shape.landmarks,
                                    analyze_image_characteristics(pil_image)),
                                width, height))

\* steps 5 and 6 of predict_landmarks: jitter, then clamping
jitter_and_clamp(self, pil_image, resolved) ==
    IF resolved.exc # "None" THEN resolved
    ELSE Ok([landmarks |-> clamp_points_to_image(
                               add_intelligent_jitter(resolved.val.landmarks,
                                                      analyze_image_characteristics(pil_image),
                                                      JitterSigmaBase, self.seed),
                               pil_image.w, pil_image.h, ClampMargin),
             mode |-> resolved.val.mode])

\* ImprovedDemoInference.predict_landmarks
predict_landmarks(self, pil_image, anchors) ==
    jitter_and_clamp(self, pil_image, resolve_mode(self, pil_image, anchors))

(***************************************************************************)
(* clinical_metrics.py                                                     *)
(*                                                                         *)
(* math.atan2 in 1e-6 degree, by CORDIC vectoring on integers: the vector  *)
(* is first turned into the right half plane, then rotated onto the x axis *)
(* by the angles atan(2^-i).                                               *)
(***************************************************************************)
CordicAngles ==
    << 45000000, 26565051, 14036243, 7125016, 3576334, 1789911,
       895174, 447614, 223811, 111906, 55953, 27976,
       13988, 6994, 3497, 1749, 874, 437,
       219, 109, 55, 27, 14, 7 >>

RECURSIVE Pow2(_)
Pow2(i) == IF i = 0 THEN 1 ELSE 2 * Pow2(i - 1)

RECURSIVE CordicStep(_, _, _, _)
CordicStep(x, y, acc, i) ==
    IF i > Len(CordicAngles) \/ y = 0 THEN acc
    ELSE LET sx == x \div Pow2(i - 1)
             sy == y \div Pow2(i - 1)
         IN  IF y > 0
             THEN CordicStep(x + sy, y - sx, acc + CordicAngles[i], i + 1)
             ELSE CordicStep(x - sy, y + sx, acc - CordicAngles[i], i + 1)

\* degrees(atan2(y, x)) in millidegrees, in (-180000, 180000]; 0 for the zero vector
atan2_deg(y, x) ==
    IF x = 0 /\ y = 0 THEN 0
    ELSE LET k == Max(1, Pow2(27) \div Max(Abs(x), Abs(y)))
             X == k * x
             Y == k * y
             a == IF x >= 0 THEN CordicStep(X, Y, 0, 1)
                  ELSE IF y >= 0 THEN CordicStep(Y, -X, 90 * 1000 * 1000, 1)
                  ELSE CordicStep(-Y, X, -90 * 1000 * 1000, 1)
         IN  RoundDiv(a, 1000)

\* the default table load_normal_ranges falls back to, in centidegrees
load_normal_ranges ==
    [SNA |-> <<8000, 8400>>, SNB |-> <<7800, 8200>>,
     ANB |-> <<0, 400>>, FMA |-> <<2500, 3000>>]

\* acos of the normalized dot product of p2->p1 and p2->p3 = atan2(|cross|, dot)
calculate_angle_from_three_points(p1, p2, p3) ==
    LET v1 == <<p1[1] - p2[1], p1[2] - p2[2]>>
        v2 == <<p3[1] - p2[1], p3[2] - p2[2]>>
    IN  IF (v1[1] = 0 /\ v1[2] = 0) \/ (v2[1] = 0 /\ v2[2] = 0) THEN 0
        ELSE atan2_deg(Abs(v1[1] * v2[2] - v1[2] * v2[1]), v1[1] * v2[1] + v1[2] * v2[2])

calculate_line_angle(p1, p2) ==
    LET dx == p2[1] - p1[1]
        dy == p2[2] - p1[2]
    IN  IF dx = 0 /\ dy = 0 THEN 0 ELSE atan2_deg(dy, dx)

calculate_angle_between_lines(line1_p1, line1_p2, line2_p1, line2_p2) ==
    LET angle1 == calculate_line_angle(line1_p1, line1_p2)
        angle2 == calculate_line_angle(line2_p1, line2_p2)
        diff == Abs(angle1 - angle2)
    IN  IF diff > 180000 THEN 360000 - diff ELSE diff

calculate_sna(landmarks) ==
    calculate_angle_from_three_points(landmarks["S"], landmarks["N"], landmarks["A"])

calculate_snb(landmarks) ==
    calculate_angle_from_three_points(landmarks["S"], landmarks["N"], landmarks["B"])

calculate_anb(sna, snb) == sna - snb

calculate_fma(landmarks) ==
    calculate_angle_between_lines(landmarks["Po"], landmarks["Or"],
                                  landmarks["Go"], landmarks["Me"])

\* value in millidegrees, normal_range in centidegrees
assess_metric_status(value, normal_range) ==
    IF value < 10 * normal_range[1] THEN "low"
    ELSE IF value > 10 * normal_range[2] THEN "high"
    ELSE "normal"

\* one entry of the result: value is round(value, 2), in centidegrees
MetricEntry(value, normal_range) ==
    [value |-> RoundDiv(value, 10), normal_range |-> normal_range,
     status |-> assess_metric_status(value, normal_range)]

compute_all_metrics(landmarks) ==
    LET normal_ranges == load_normal_ranges
        sna == calculate_sna(landmarks)
        snb == calculate_snb(landmarks)
        anb == calculate_anb(sna, snb)
        fma == calculate_fma(landmarks)
    IN  [SNA |-> MetricEntry(sna, normal_ranges.SNA),
         SNB |-> MetricEntry(snb, normal_ranges.SNB),
         ANB |-> MetricEntry(anb, normal_ranges.ANB),
         FMA |-> MetricEntry(fma, normal_ranges.FMA)]

required_landmarks == << "S", "N", "A", "B", "Po", "Or", "Go", "Me" >>

\* the first required landmark the mapping lacks, in the order of the check
FirstMissing(landmarks) ==
    LET miss == { i \in 1..Len(required_landmarks) :
                    required_landmarks[i] \notin DOMAIN landmarks }
    IN  required_landmarks[CHOOSE i \in miss : \A j \in miss : i <= j]

validate_landmarks(landmarks) ==
    IF \E i \in 1..Len(required_landmarks) : required_landmarks[i] \notin DOMAIN landmarks
    THEN Raise("ValueError", FirstMissing(landmarks))
    ELSE Ok(TRUE)

compute_all(landmarks) ==
    LET v == validate_landmarks(landmarks)
    IN  IF v.exc # "None" THEN Raise(v.exc, v.msg)
        ELSE Ok(compute_all_metrics(landmarks))

(***************************************************************************)
(* multimodal_classifier.py                                                *)
(*                                                                         *)
(* Angles are in centidegrees (the "value" of a metric), deviations in     *)
(* 1e-4, logits in 1e-3, probabilities, confidences and weights in 1e-6.   *)
(* meta: [has_age, age, has_sex, sex].                                     *)
(***************************************************************************)
Ppm == 1000 * 1000

\* a * b / 1e6 on 1e-6 fixed point, without leaving 32 bits
MulPpm(a, b) == (a * (b \div 1000)) \div 1000 + (a * (b % 1000)) \div Ppm

\* a division left out: the numerator is kept as it is
FracPpmUnnormalized(a, s) == a

\* a / s in 1e-6 (0 <= a <= s), by long division in base 100
FracPpm(a, s) ==
    LET q1 == (a * 100) \div s
        r1 == (a * 100) % s
        q2 == (r1 * 100) \div s
        r2 == (r1 * 100) % s
        q3 == (r2 * 100) \div s
    IN  q1 * 10000 + q2 * 100 + q3

Meta(has_age, age, has_sex, sex) ==
    [has_age |-> has_age, age |-> age, has_sex |-> has_sex, sex |-> sex]

EmptyMeta == Meta(FALSE, 0, FALSE, "")

AGE_SEX_NORMS ==
    [ ANB |-> [ child       |-> [M |-> <<100, 500>>, F |-> <<150, 550>>, default |-> <<100, 500>>],
                young_adult |-> [M |-> <<50, 400>>, F |-> <<100, 450>>, default |-> <<50, 450>>],
                adult       |-> [M |-> <<0, 350>>, F |-> <<50, 400>>, default |-> <<0, 400>>],
                middle_aged |-> [M |-> <<-50, 300>>, F |-> <<0, 350>>, default |-> <<-50, 350>>] ],
      SNA |-> [ child       |-> [M |-> <<7800, 8600>>, F |-> <<7900, 8700>>, default |-> <<7800, 8700>>],
                young_adult |-> [M |-> <<7900, 8500>>, F |-> <<8000, 8600>>, default |-> <<7900, 8600>>],
                adult       |-> [M |-> <<8000, 8400>>, F |-> <<8100, 8500>>, default |-> <<8000, 8500>>],
                middle_aged |-> [M |-> <<8100, 8300>>, F |-> <<8200, 8400>>, default |-> <<8100, 8400>>] ],
      SNB |-> [ child       |-> [M |-> <<7500, 8300>>, F |-> <<7600, 8400>>, default |-> <<7500, 8400>>],
                young_adult |-> [M |-> <<7600, 8200>>, F |-> <<7700, 8300>>, default |-> <<7600, 8300>>],
                adult       |-> [M |-> <<7800, 8200>>, F |-> <<7900, 8300>>, default |-> <<7800, 8300>>],
                middle_aged |-> [M |-> <<7900, 8100>>, F |-> <<8000, 8200>>, default |-> <<7900, 8200>>] ],
      FMA |-> [ child       |-> [M |-> <<2200, 3200>>, F |-> <<2300, 3300>>, default |-> <<2200, 3300>>],
                young_adult |-> [M |-> <<2300, 3100>>, F |-> <<2400, 3200>>, default |-> <<2300, 3200>>],
                adult       |-> [M |-> <<2500, 3000>>, F |-> <<2600, 3100>>, default |-> <<2500, 3100>>],
                middle_aged |-> [M |-> <<2600, 2900>>, F |-> <<2700, 3000>>, default |-> <<2600, 3000>>] ] ]

get_age_group(age) ==
    IF age <= 15 THEN "child"
    ELSE IF age <= 25 THEN "young_adult"
    ELSE IF age <= 40 THEN "adult"
    ELSE "middle_aged"

get_personalized_normal_range(metric, age, sex) ==
    LET norms == AGE_SEX_NORMS[metric][get_age_group(age)]
    IN  IF sex \in {"M", "F", "default"} THEN norms[sex] ELSE norms["default"]

\* in 1e-4
calculate_personalized_deviation(value, metric, age, sex) ==
    LET r == get_personalized_normal_range(metric, age, sex)
        min_norm == r[1]
        max_norm == r[2]
    IN  IF value < min_norm THEN ((min_norm - value) * 10000) \div (max_norm - min_norm)
        ELSE IF value > max_norm THEN ((value - max_norm) * 10000) \div (max_norm - min_norm)
        ELSE 0

\* a rule stage whose thresholds themselves classify as II and III
rule_based_inclusive_thresholds(anb_value, age, sex) ==
    LET r == get_personalized_normal_range("ANB", age, sex)
    IN  IF anb_value >= r[2] + 50
        THEN [class |-> 1, confidence |-> Min(950000, 600000 + (anb_value - r[2] - 50) * 1000)]
        ELSE IF anb_value <= r[1] - 50
        THEN [class |-> 2, confidence |-> Min(950000, 600000 + (r[1] - 50 - anb_value) * 1000)]
        ELSE [class |-> 0,
              confidence |-> Max(600000, 900000 - (Abs(2 * anb_value - (r[1] + r[2])) * 300000)
                                                     \div (r[2] - r[1]))]

\* [class, confidence]; class 0 = I, 1 = II, 2 = III
enhanced_rule_based_classification(anb_value, age, sex) ==
    LET r == get_personalized_normal_range("ANB", age, sex)
        min_norm == r[1]
        max_norm == r[2]
        class_2_threshold == max_norm + 50
        class_3_threshold == min_norm - 50
    IN  IF anb_value > class_2_threshold
        THEN [class |-> 1,
              confidence |-> Min(950000, 600000 + (anb_value - class_2_threshold) * 1000)]
        ELSE IF anb_value < class_3_threshold
        THEN [class |-> 2,
              confidence |-> Min(950000, 600000 + (class_3_threshold - anb_value) * 1000)]
        ELSE LET distance_from_center == Abs(2 * anb_value - (min_norm + max_norm))
                 max_distance == max_norm - min_norm
             IN  [class |-> 0,
                  confidence |->
                      Max(600000, 900000 - (distance_from_center * 300000) \div max_distance)]

MetricNames == {"SNA", "SNB", "ANB", "FMA"}

MetricDefault == [SNA |-> 8200, SNB |-> 8000, ANB |-> 200, FMA |-> 2700]

\* metrics.get(m, {}).get("value", default)
MetricValue(metrics, m) ==
    IF m \in DOMAIN metrics THEN metrics[m].value ELSE MetricDefault[m]

extract_enhanced_features(metrics, meta) ==
    LET age == IF meta.has_age THEN meta.age ELSE 25
        sex == IF meta.has_sex THEN meta.sex ELSE "U"
        anb == MetricValue(metrics, "ANB")
        fma == MetricValue(metrics, "FMA")
        sex_encoded == IF sex = "M" THEN 10 ELSE IF sex = "F" THEN 20 ELSE 15
    IN  [ age |-> age,
          sex_encoded |-> sex_encoded,
          age_group |-> CASE get_age_group(age) = "child" -> 1
                          [] get_age_group(age) = "young_adult" -> 2
                          [] get_age_group(age) = "adult" -> 3
                          [] OTHER -> 4,
          SNA |-> MetricValue(metrics, "SNA"),
          SNB |-> MetricValue(metrics, "SNB"),
          ANB |-> anb,
          FMA |-> fma,
          \* the "<metric>_personalized_deviation" keys, present for the metrics given
          personalized_deviation |->
              [m \in MetricNames \cap DOMAIN metrics |->
                  calculate_personalized_deviation(metrics[m].value, m, age, sex)],
          age_sex_interaction |-> age * sex_encoded,
          growth_stage |-> IF age <= 18 THEN 1 ELSE 0,
          anb_growth_adjusted |-> IF age <= 18 THEN anb + (18 - age) * 10 ELSE anb,
          sagittal_discrepancy |-> Abs(anb - 200),
          vertical_pattern |-> IF fma > 3000 THEN 1 ELSE 0,
          sex_adjusted_anb |-> IF sex = "F" THEN anb - 50
                               ELSE IF sex = "M" THEN anb + 50 ELSE anb ]

\* features.get("ANB_personalized_deviation", 0)
ANB_personalized_deviation(features) ==
    IF "ANB" \in DOMAIN features.personalized_deviation
    THEN features.personalized_deviation["ANB"] ELSE 0

(***************************************************************************)
(* hash(str(sorted(features.items()))): the interpreter's hash of a str is *)
(* keyed by a per-process random key (hashseed) unless PYTHONHASHSEED      *)
(* fixes it.  Modelled as a keyed polynomial hash of the values in key     *)
(* order: a fixed function inside one process, a different function in a   *)
(* process started with another key.                                       *)
(***************************************************************************)
FeatureItems(features) ==
    LET d == features.personalized_deviation
        dev(m) == IF m \in DOMAIN d THEN <<d[m]>> ELSE << >>
    IN  << features.ANB >> \o dev("ANB") \o << features.FMA >> \o dev("FMA")
        \o << features.SNA >> \o dev("SNA") \o << features.SNB >> \o dev("SNB")
        \o << features.age, features.age_group, features.age_sex_interaction,
              features.anb_growth_adjusted, features.growth_stage,
              features.sagittal_discrepancy, features.sex_adjusted_anb,
              features.sex_encoded, features.vertical_pattern >>

RECURSIVE StrHash(_, _, _)
StrHash(key, items, i) ==
    IF i = 0 THEN (key * 7919 + 17) % 1000003
    ELSE (StrHash(key, items, i - 1) * 31 + (items[i] % 1009) + key) % 1000003

\* hash(str(...)) of this process; signed, as a Python hash is
python_hash(key, items) == StrHash(key, items, Len(items)) - 500000

\* exp(-d / 1000) in 1e-6, d >= 0: e^-k from a table, e^-f by its Taylor series
ExpNegInt ==
    << 1000000, 367879, 135335, 49787, 18316, 6738, 2479, 912, 335, 123, 45, 17, 6, 2, 1 >>

RECURSIVE ExpTaylor(_, _, _)
ExpTaylor(f, n, term) ==
    IF n > 9 \/ term = 0 THEN 0
    ELSE term + ExpTaylor(f, n + 1, -((Abs(term) * f) \div (1000 * n)) * (IF term > 0 THEN 1 ELSE -1))

ExpNeg(d) ==
    LET k == d \div 1000
        f == d % 1000
    IN  IF k + 1 > Len(ExpNegInt) THEN 0
        ELSE MulPpm(ExpNegInt[k + 1], ExpTaylor(f, 1, Ppm))

Max3(v) == Max(v[1], Max(v[2], v[3]))

\* an argmax that starts its scan at the second component
argmax_from_second(v) == IF v[2] >= v[3] THEN 1 ELSE 2

\* np.argmax: the first index of the maximum (0-based)
argmax(v) == IF v[1] = Max3(v) THEN 0 ELSE IF v[2] = Max3(v) THEN 1 ELSE 2

softmax(logits) ==
    LET exps(m) == <<ExpNeg(m - logits[1]), ExpNeg(m - logits[2]), ExpNeg(m - logits[3])>>
        shares(e, total) == <<FracPpm(e[1], total), FracPpm(e[2], total), FracPpm(e[3], total)>>
        normalized(e) == shares(e, e[1] + e[2] + e[3])
    IN  normalized(exps(Max3(logits)))

combined_seed(features, seed, key) ==
    LET feature_hash == Abs(python_hash(key, FeatureItems(features))) % 10000
        x == seed + feature_hash
        \* x % 2**31, from the halves of 2**31 (2**31 itself exceeds the integer range)
    IN  ((x \div Pow2(30)) % 2) * Pow2(30) + (x % Pow2(30))

\* a bias that goes to class II whenever the deviation is large
anb_bias_toward_class_two(anb, anb_deviation) ==
    IF anb_deviation > 5000 THEN <<0, 1500 + anb_deviation \div 10, 0>>
    ELSE IF anb_deviation < 1000 THEN <<1000, 0, 0>>
    ELSE <<0, 0, 0>>

\* what the ANB deviation adds to the logits of classes I, II and III
anb_bias(anb, anb_deviation) ==
    IF anb_deviation > 5000
    THEN IF anb > 400
         THEN <<0, 1500 + anb_deviation \div 10, 0>>
         ELSE <<0, 0, 1500 + anb_deviation \div 10>>
    ELSE IF anb_deviation < 1000 THEN <<1000, 0, 0>>
    ELSE <<0, 0, 0>>

\* the probability vector <<P(I), P(II), P(III)>>; key is the process's hash key
enhanced_ml_simulation(features, seed, key) ==
    LET anb == features.ANB
        anb_deviation == ANB_personalized_deviation(features)
        \* the k-th draw of np.random.RandomState(combined_seed), scaled by sigma
        draw(cs, k, sigma) == RoundDiv(sigma * RandomState_normal(cs, k), 1000)
        base_logits(cs) == <<draw(cs, 1, 800), draw(cs, 2, 800), draw(cs, 3, 800)>>
        \* domain knowledge: the ANB deviation
        by_anb(l) ==
            <<l[1] + anb_bias(anb, anb_deviation)[1], l[2] + anb_bias(anb, anb_deviation)[2],
              l[3] + anb_bias(anb, anb_deviation)[3]>>
        \* age group
        by_age(cs, l) ==
            IF features.age_group = 1
            THEN <<l[1] + draw(cs, 4, 300), l[2] + draw(cs, 5, 300), l[3] + draw(cs, 6, 300)>>
            ELSE IF features.age_group = 4 THEN [l EXCEPT ![1] = @ + 300]
            ELSE l
        used == IF features.age_group = 1 THEN 6 ELSE 3
        \* sex
        by_sex(l) ==
            IF features.sex_encoded = 20 THEN [l EXCEPT ![2] = @ + 200]
            ELSE IF features.sex_encoded = 10 THEN [l EXCEPT ![3] = @ + 200]
            ELSE l
        \* growth stage
        by_growth(cs, l) ==
            IF features.growth_stage = 1
            THEN <<l[1] + draw(cs, used + 1, 200), l[2] + draw(cs, used + 2, 200),
                   l[3] + draw(cs, used + 3, 200)>>
            ELSE l
        logits(cs) == by_growth(cs, by_sex(by_age(cs, by_anb(base_logits(cs)))))
    IN  softmax(logits(combined_seed(features, seed, key)))

\* weights that depend on the deviation only, not on the age
weights_without_age_shift(features) ==
    IF ANB_personalized_deviation(features) > 10000 THEN <<800000, 200000>>
    ELSE IF ANB_personalized_deviation(features) > 5000 THEN <<700000, 300000>>
    ELSE <<600000, 400000>>

\* <<rule_weight, model_weight>>
calculate_dynamic_weights(features) ==
    LET age == features.age
        anb_deviation == ANB_personalized_deviation(features)
        w1 == IF anb_deviation > 10000 THEN <<800000, 200000>>
              ELSE IF anb_deviation > 5000 THEN <<700000, 300000>>
              ELSE <<600000, 400000>>
        w2 == IF age <= 15 THEN <<w1[1] - 100000, w1[2] + 100000>> ELSE w1
        total == w2[1] + w2[2]
    IN  <<FracPpm(w2[1], total), FracPpm(w2[2], total)>>

\* _generate_personalized_basis: sex_kr is looked up in {"M", "F", "U"}
_generate_personalized_basis(anb_value, age, sex, predicted_class, features) ==
    IF sex \notin {"M", "F", "U"} THEN Raise("KeyError", sex)
    ELSE Ok([threshold |-> get_personalized_normal_range("ANB", age, sex),
             growth |-> features.growth_stage = 1])

\* a fusion that spreads the rule stage's vote evenly over the three classes
fused_without_rule_vote(rule, model_probs, w) ==
    LET shares(f, total) == <<FracPpm(f[1], total), FracPpm(f[2], total), FracPpm(f[3], total)>>
        normalized(f) == shares(f, f[1] + f[2] + f[3])
        fused_one(i) == MulPpm(w[1], rule.confidence) \div 3 + MulPpm(w[2], model_probs[i + 1])
    IN  normalized(<<fused_one(0), fused_one(1), fused_one(2)>>)

\* step 4 of predict: the rule stage's weighted confidence goes to its class,
\* the weighted statistical probabilities are added, and the sum is normalized
fused_probabilities(rule, model_probs, w) ==
    LET shares(f, total) == <<FracPpm(f[1], total), FracPpm(f[2], total), FracPpm(f[3], total)>>
        normalized(f) == shares(f, f[1] + f[2] + f[3])
        fused_one(i) ==
            (IF i = rule.class THEN MulPpm(w[1], rule.confidence) ELSE 0)
            + MulPpm(w[2], model_probs[i + 1])
    IN  normalized(<<fused_one(0), fused_one(1), fused_one(2)>>)

\* EnhancedDemoClassifier.predict
predict(self, metrics, meta, key) ==
    LET sex == IF meta.has_sex THEN meta.sex ELSE "U"
        report(features, rule, model_probs, w, final_probs, basis) ==
            IF basis.exc # "None" THEN Raise(basis.exc, basis.msg)
            ELSE Ok([ predicted_class |-> argmax(final_probs),
                      confidence |-> Max3(final_probs),
                      probabilities |-> final_probs,
                      anb_value |-> features.ANB,
                      personalized_analysis |->
                          [age_group |-> get_age_group(features.age), sex |-> sex,
                           normal_range_anb |->
                               get_personalized_normal_range("ANB", features.age, sex),
                           anb_deviation |-> ANB_personalized_deviation(features)],
                      model_weights |-> [rule_based |-> w[1], ml_based |-> w[2]],
                      components |->
                          [rule_based |-> [class |-> rule.class,
                                           confidence |-> rule.confidence],
                           model_based |-> [class |-> argmax(model_probs),
                                            confidence |-> Max3(model_probs),
                                            probabilities |-> model_probs]] ])
        explain(features, rule, model_probs, w, final_probs) ==
            report(features, rule, model_probs, w, final_probs,
                   _generate_personalized_basis(features.ANB, features.age, sex,
                                                argmax(final_probs), features))
        fuse(features, rule, model_probs, w) ==
            explain(features, rule, model_probs, w,
                    fused_probabilities(rule, model_probs, w))
        classify(features) ==
            fuse(features,
                 enhanced_rule_based_classification(features.ANB, features.age, sex),
                 enhanced_ml_simulation(features, self.seed, key),
                 calculate_dynamic_weights(features))
    IN  classify(extract_enhanced_features(metrics, meta))

(***************************************************************************)
(* integration_pipeline.py                                                 *)
(*                                                                         *)
(* image_input: [kind, exists, decodes, img]; kind "pil" is a PIL image,   *)
(* "path" a str path (exists: the file is there, decodes: it holds an      *)
(* image), "other" any other value.                                        *)
(* A result dict is a record with the set of its keys in field keys; a     *)
(* field whose key is absent holds a placeholder.                          *)
(***************************************************************************)
MIN_DIMENSION == 100

FULL_LANDMARK_COUNT == 19

PilInput(img) == [kind |-> "pil", exists |-> TRUE, decodes |-> TRUE, img |-> img]

PathInput(exists, decodes, img) ==
    [kind |-> "path", exists |-> exists, decodes |-> decodes, img |-> img]

OtherInput ==
    [kind |-> "other", exists |-> FALSE, decodes |-> FALSE, img |-> Image(0, 0, 0, 0, 0, "")]

\* every exception class the stages raise derives from Exception
ExceptionClasses ==
    {"ValueError", "KeyError", "FileNotFoundError", "UnidentifiedImageError",
     "JSONDecodeError", "UnicodeEncodeError"}

_ensure_pil_image(image_input) ==
    IF image_input.kind = "other" THEN Raise("ValueError", "unsupported image input")
    ELSE IF image_input.kind = "path" /\ ~image_input.exists
         THEN Raise("FileNotFoundError", "image file not found")
    ELSE IF image_input.kind = "path" /\ ~image_input.decodes
         THEN Raise("UnidentifiedImageError", "cannot identify image file")
    ELSE IF image_input.img.w < MIN_DIMENSION \/ image_input.img.h < MIN_DIMENSION
         THEN Raise("ValueError", "image too small")
    ELSE Ok(image_input.img)

preprocess_image(image_input) == _ensure_pil_image(image_input)

InitialStats ==
    [total_runs |-> 0, has_last |-> FALSE, last_run_time |-> 0,
     average_processing_time |-> 0]

\* statistics whose average is overwritten by the time of the last run
_update_stats_last_only(st, processing_time) ==
    [total_runs |-> st.total_runs + 1, has_last |-> TRUE,
     last_run_time |-> processing_time, average_processing_time |-> processing_time]

\* processing_time and the average are in microseconds
_update_stats(st, processing_time) ==
    LET n == st.total_runs + 1
    IN  [total_runs |-> n, has_last |-> TRUE, last_run_time |-> processing_time,
         average_processing_time |->
             IF n = 1 THEN processing_time
             ELSE RoundDiv(processing_time + 9 * st.average_processing_time, 10)]

\* tiers whose thresholds belong to the tier below
rec_text_exclusive(s) ==
    IF s > 900000 THEN "excellent"
    ELSE IF s > 700000 THEN "good"
    ELSE IF s > 500000 THEN "caution"
    ELSE "low_confidence"

rec_text(s) ==
    IF s >= 900000 THEN "excellent"
    ELSE IF s >= 700000 THEN "good"
    ELSE IF s >= 500000 THEN "caution"
    ELSE "low_confidence"

Clamp01(x) == Max(0, Min(Ppm, x))

_summarize_quality(landmarks, clinical_metrics, classification) ==
    LET count == Cardinality(DOMAIN landmarks)
        lmk_score == IF count < FULL_LANDMARK_COUNT
                     THEN Ppm - 100000 * (FULL_LANDMARK_COUNT - count) ELSE Ppm
        abnormal == Cardinality({m \in DOMAIN clinical_metrics :
                                    clinical_metrics[m].status # "normal"})
        m_score == IF abnormal >= 3 THEN Ppm - 200000 ELSE Ppm
        conf == classification.confidence
        scores == [landmarks |-> Clamp01(lmk_score), metrics |-> Clamp01(m_score),
                   classification |-> Clamp01(conf)]
        overall == Clamp01((scores.landmarks * 3 + scores.metrics * 3
                            + scores.classification * 4) \div 10)
    IN  [overall_score |-> RoundDiv(overall, 1000) * 1000,
         component_scores |-> scores,
         warnings |-> (IF count < FULL_LANDMARK_COUNT THEN {"landmarks_missing"} ELSE {})
                      \cup (IF abnormal >= 3 THEN {"many_abnormal"} ELSE {})
                      \cup (IF conf < 700000 THEN {"low_confidence"} ELSE {}),
         recommendation |-> rec_text(overall)]

NoError == [keys |-> {}, type |-> "", message |-> "", stage |-> ""]

NoLandmarks == [count |-> 0, inference_mode |-> "", coordinates |-> EmptyDict]

NoQuality ==
    [overall_score |-> 0,
     component_scores |-> [landmarks |-> 0, metrics |-> 0, classification |-> 0],
     warnings |-> {}, recommendation |-> ""]

BlankResult ==
    [keys |-> {}, success |-> FALSE, error |-> NoError, run_id |-> FALSE,
     anchors_used |-> FALSE, landmarks |-> NoLandmarks,
     clinical_metrics |-> [m \in {} |-> 0], classification |-> [f \in {} |-> 0],
     performance |-> 0, quality |-> NoQuality]

SuccessKeys ==
    {"run_id", "timestamp", "demo_mode", "seed", "image_info", "meta", "anchors_used",
     "landmarks", "clinical_metrics", "classification", "performance", "quality", "success"}

\* the dict run returns when a component failed to initialise
InitErrorResult(etype, emsg) ==
    [BlankResult EXCEPT
        !.keys = {"success", "error", "demo_mode"},
        !.error = [keys |-> {"type", "message", "stage"},
                   type |-> etype, message |-> emsg, stage |-> "init"]]

\* Variant of the except clause that also hands back the landmarks found so far
ExceptResultPartial(etype, emsg) ==
    [BlankResult EXCEPT
        !.keys = {"run_id", "timestamp", "demo_mode", "success", "error", "landmarks"},
        !.error = [keys |-> {"type", "message"},
                   type |-> etype, message |-> emsg, stage |-> ""]]

\* the dict run returns from its except clause
ExceptResult(etype, emsg) ==
    [BlankResult EXCEPT
        !.keys = {"run_id", "timestamp", "demo_mode", "success", "error"},
        !.error = [keys |-> {"type", "message"},
                   type |-> etype, message |-> emsg, stage |-> ""]]

(***************************************************************************)
(* The body of run's try block: [exc, msg, val, trace, stats].  trace      *)
(* lists the stages entered, stats is self.stats when the block is left.   *)
(***************************************************************************)
run_body(self, image_input, meta, anchors, total_s, key) ==
    LET fail(r, trace) == [exc |-> r.exc, msg |-> r.msg, val |-> BlankResult,
                           trace |-> trace, stats |-> self.stats]
        finish(landmarks, inference_mode, clinical, cls) ==
            [exc |-> "None", msg |-> "",
             val |-> [BlankResult EXCEPT
                         !.keys = SuccessKeys,
                         !.success = TRUE,
                         !.anchors_used = ~anchors.none,
                         !.landmarks = [count |-> Cardinality(DOMAIN landmarks),
                                        inference_mode |-> inference_mode,
                                        coordinates |-> landmarks],
                         !.clinical_metrics = clinical,
                         !.classification = cls,
                         !.performance = total_s \div 10,
                         !.quality = _summarize_quality(landmarks, clinical, cls)],
             trace |-> <<"preprocess", "landmarks", "metrics", "classification",
                         "quality", "stats">>,
             stats |-> _update_stats(self.stats, total_s)]
        classified(lm, clinical, cls) ==
            IF cls.exc # "None"
            THEN fail(cls, <<"preprocess", "landmarks", "metrics", "classification">>)
            ELSE finish(lm.val.landmarks, lm.val.mode, clinical.val, cls.val)
        measured(lm, clinical) ==
            IF clinical.exc # "None"
            THEN fail(clinical, <<"preprocess", "landmarks", "metrics">>)
            ELSE classified(lm, clinical, predict(self.classifier, clinical.val, meta, key))
        located(lm) ==
            IF lm.exc # "None" THEN fail(lm, <<"preprocess", "landmarks">>)
            ELSE measured(lm, compute_all(lm.val.landmarks))
        preprocessed(pre) ==
            IF pre.exc # "None" THEN fail(pre, <<"preprocess">>)
            ELSE located(predict_landmarks(self.inference_engine, pre.val, anchors))
    IN  preprocessed(preprocess_image(image_input))

\* Variant of the try statement whose handler is "except (ValueError, OSError)"
run_try_narrow(body) ==
    IF body.exc = "None"
    THEN [raised |-> "None", trace |-> body.trace, stats |-> body.stats,
          result |-> body.val]
    ELSE IF body.exc \in {"ValueError", "FileNotFoundError"}
    THEN [raised |-> "None", trace |-> body.trace, stats |-> body.stats,
          result |-> ExceptResult(body.exc, body.msg)]
    ELSE [raised |-> body.exc, trace |-> body.trace, stats |-> body.stats,
          result |-> BlankResult]

\* Variant of the try statement that updates the statistics in a finally clause
run_try_finally(body) ==
    IF body.exc = "None"
    THEN [raised |-> "None", trace |-> body.trace, stats |-> body.stats,
          result |-> body.val]
    ELSE [raised |-> IF body.exc \in ExceptionClasses THEN "None" ELSE body.exc,
          trace |-> body.trace \o <<"stats">>,
          stats |-> _update_stats(body.stats, 0),
          result |-> ExceptResult(body.exc, body.msg)]

\* what run's try statement does with the outcome of its body
run_try(body) ==
    IF body.exc = "None"
    THEN [raised |-> "None", trace |-> body.trace, stats |-> body.stats,
          result |-> body.val]
    ELSE IF body.exc \in ExceptionClasses
    THEN [raised |-> "None", trace |-> body.trace, stats |-> body.stats,
          result |-> ExceptResult(body.exc, body.msg)]
    ELSE [raised |-> body.exc, trace |-> body.trace, stats |-> body.stats,
          result |-> BlankResult]

\* Variant of run whose estimator draws from one generator kept across calls,
\* so the draws of a call follow those of the successful calls before it
run_shared_generator(self, image_input, meta, anchors, total_s, key) ==
    IF self.init_error.set
    THEN [raised |-> "None", trace |-> << >>, stats |-> self.stats,
          result |-> InitErrorResult(self.init_error.type, self.init_error.message)]
    ELSE IF ~self.inference_engine.present \/ ~self.classifier.present
    THEN [raised |-> "None", trace |-> << >>, stats |-> self.stats,
          result |-> InitErrorResult("ComponentMissing", "component not initialised")]
    ELSE run_try(run_body([self EXCEPT !.inference_engine.seed = @ + self.stats.total_runs],
                          image_input, meta, anchors, total_s, key))

\* CephalometricPipeline.run: [raised, result, trace, stats]
run(self, image_input, meta, anchors, total_s, key) ==
    IF self.init_error.set
    THEN [raised |-> "None", trace |-> << >>, stats |-> self.stats,
          result |-> InitErrorResult(self.init_error.type, self.init_error.message)]
    ELSE IF ~self.inference_engine.present \/ ~self.classifier.present
    THEN [raised |-> "None", trace |-> << >>, stats |-> self.stats,
          result |-> InitErrorResult("ComponentMissing", "component not initialised")]
    ELSE run_try(run_body(self, image_input, meta, anchors, total_s, key))

\* what run_batch's loop appends for item i
batch_item(r) ==
    IF r.raised = "None" THEN r.result
    ELSE [BlankResult EXCEPT
             !.keys = {"run_id", "success", "error"},
             !.error = [keys |-> {"type", "message"}, type |-> r.raised,
                        message |-> "", stage |-> ""]]

\* Variant of the loop that stops at the first item that did not succeed
RECURSIVE batch_loop_abort(_, _, _, _, _, _)
batch_loop_abort(self, image_list, meta_list, times, key, i) ==
    LET append(r, rest) ==
            [raised |-> rest.raised, results |-> <<batch_item(r)>> \o rest.results,
             traces |-> <<r.trace>> \o rest.traces, stats |-> rest.stats]
        step(r) ==
            IF r.raised # "None" \/ ~r.result.success
            THEN [raised |-> "None", results |-> <<batch_item(r)>>, traces |-> <<r.trace>>,
                  stats |-> r.stats]
            ELSE append(r, batch_loop_abort([self EXCEPT !.stats = r.stats], image_list,
                                            meta_list, times, key, i + 1))
    IN  IF i > Len(image_list)
        THEN [raised |-> "None", results |-> << >>, traces |-> << >>, stats |-> self.stats]
        ELSE step(run(self, image_list[i], meta_list[i], NoAnchors, times[i], key))

\* run_batch's loop from item i on: [raised, results, traces, stats]
RECURSIVE batch_loop(_, _, _, _, _, _)
batch_loop(self, image_list, meta_list, times, key, i) ==
    LET append(r, rest) ==
            [raised |-> rest.raised, results |-> <<batch_item(r)>> \o rest.results,
             traces |-> <<r.trace>> \o rest.traces, stats |-> rest.stats]
        step(r) ==
            IF r.raised # "None" /\ r.raised \notin ExceptionClasses
            THEN [raised |-> r.raised, results |-> << >>, traces |-> << >>, stats |-> r.stats]
            ELSE append(r, batch_loop([self EXCEPT !.stats = r.stats], image_list, meta_list,
                                      times, key, i + 1))
    IN  IF i > Len(image_list)
        THEN [raised |-> "None", results |-> << >>, traces |-> << >>, stats |-> self.stats]
        ELSE step(run(self, image_list[i], meta_list[i], NoAnchors, times[i], key))

\* CephalometricPipeline.run_batch; meta_list: [none, list]
run_batch(self, image_list, meta_list, times, key) ==
    LET loop(metas) ==
            IF Len(metas) # Len(image_list)
            THEN [raised |-> "ValueError", results |-> << >>, traces |-> << >>,
                  stats |-> self.stats]
            ELSE batch_loop(self, image_list, metas, times, key, 1)
    IN  loop(IF meta_list.none THEN [i \in 1..Len(image_list) |-> EmptyMeta]
             ELSE meta_list.list)

\* EnhancedDemoClassifier.__init__; constructed: whether the constructor completes
EnhancedDemoClassifier(seed, constructed) ==
    IF constructed THEN Ok([present |-> TRUE, seed |-> seed])
    ELSE Raise("UnicodeEncodeError", "classifier construction failed")

NoClassifier == [present |-> FALSE, seed |-> 0]

NoInitError == [set |-> FALSE, type |-> "", message |-> ""]

\* CephalometricPipeline.__init__ (demo_mode = True)
CephalometricPipeline(demo_config_file, mean_shape_file, seed, clf_constructed) ==
    LET eng == ImprovedDemoInference(demo_config_file, mean_shape_file, seed)
        clf == EnhancedDemoClassifier(seed, clf_constructed)
    IN  [ inference_engine |-> IF eng.exc = "None" THEN eng.val ELSE NoEngine,
          init_error |-> IF eng.exc = "None" THEN NoInitError
                         ELSE [set |-> TRUE, type |-> "InferenceInitError", message |-> eng.msg],
          classifier |-> IF clf.exc = "None" THEN clf.val ELSE NoClassifier,
          clf_init_error |-> IF clf.exc = "None" THEN NoInitError
                             ELSE [set |-> TRUE, type |-> "ClassifierInitError",
                                   message |-> clf.msg],
          stats |-> InitialStats ]

\* the pipeline object
Self ==
    [inference_engine |-> inference_engine, classifier |-> classifier,
     init_error |-> init_error, clf_init_error |-> clf_init_error, stats |-> stats]

(***************************************************************************)
(* Inputs                                                                  *)
(***************************************************************************)
CanonicalFile == Resource("ok", TRUE, create_demo_image_from_reference, "demo")

\* a mean shape: the generic prior used for every image but the reference one
MeanShapeLandmarks ==
    ("N" :> <<58000, 20000>>) @@ ("S" :> <<42000, 32000>>) @@
    ("Ar" :> <<38000, 45000>>) @@ ("Or" :> <<52000, 32500>>) @@
    ("Po" :> <<35000, 36000>>) @@ ("A" :> <<63000, 49000>>) @@
    ("B" :> <<60000, 63000>>) @@ ("U1" :> <<66000, 53000>>) @@
    ("Ls" :> <<72000, 52000>>) @@ ("Pog'" :> <<73000, 70000>>) @@
    ("Go" :> <<40000, 61000>>) @@ ("Pog" :> <<65000, 67000>>) @@
    ("Me" :> <<60000, 71000>>) @@ ("ANS" :> <<64000, 47000>>) @@
    ("PNS" :> <<48000, 48000>>) @@ ("Gn" :> <<62000, 70000>>) @@
    ("L1" :> <<64000, 59000>>) @@ ("Li" :> <<69000, 59000>>) @@
    ("Pn" :> <<75000, 46000>>)

Without(d, names) == Dict([n \in DOMAIN d \ names |-> d[n]])

MeanShapeFile == Resource("ok", TRUE, MeanShapeLandmarks, "")

\* well-formed JSON whose landmarks mapping lacks Pn / lacks S / is absent
MeanShapeNoPn == Resource("ok", TRUE, Without(MeanShapeLandmarks, {"Pn"}), "")

MeanShapeNoS == Resource("ok", TRUE, Without(MeanShapeLandmarks, {"S"}), "")

MeanShapeNoLandmarks == Resource("ok", FALSE, EmptyDict, "")

MissingFile == Resource("missing", FALSE, EmptyDict, "")

CorruptFile == Resource("corrupt", FALSE, EmptyDict, "")

\* <<demo_landmarks.json, mean_shape.json>>
Configs ==
    { <<CanonicalFile, MeanShapeFile>>, <<CanonicalFile, MeanShapeNoPn>>,
      <<CanonicalFile, MeanShapeNoS>>, <<CanonicalFile, MeanShapeNoLandmarks>>,
      <<MissingFile, MeanShapeFile>>, <<CanonicalFile, CorruptFile>> }

Seeds == {42, 7}

HashSeeds == {0, 1}

DemoImage == Image(800, 600, 120, 50, 30, "demo")

DemoImageResized == Image(400, 300, 120, 50, 30, "demo")

GrayImage == Image(800, 600, 221, 0, 0, "gray")

DarkPortrait == Image(600, 800, 40, 20, 10, "dark")

WideImage == Image(1000, 600, 120, 60, 70, "wide")

MinImage == Image(100, 100, 128, 30, 15, "min")

TooSmallImage == Image(50, 50, 128, 30, 15, "small")

NarrowImage == Image(200, 99, 128, 30, 15, "narrow")

TinyImage == Image(8, 8, 128, 30, 15, "tiny")

Images ==
    { DemoImage, DemoImageResized, GrayImage, DarkPortrait, WideImage, MinImage,
      TooSmallImage, NarrowImage, TinyImage }

\* the image arguments of run
ImageInputs ==
    { PilInput(DemoImage), PilInput(GrayImage), PilInput(DarkPortrait), PilInput(MinImage),
      PilInput(TooSmallImage), PilInput(NarrowImage), PathInput(TRUE, TRUE, WideImage),
      PathInput(TRUE, TRUE, TooSmallImage), PathInput(TRUE, FALSE, GrayImage),
      PathInput(FALSE, FALSE, GrayImage), OtherInput }

Metas == { EmptyMeta, Meta(TRUE, 12, TRUE, "F"), Meta(TRUE, 45, TRUE, "X") }

\* the anchors arguments of run
RunAnchors == { NoAnchors, Anchors(("Or" :> <<400, 200>>) @@ ("Po" :> <<300, 210>>)) }

AnchorSets ==
    { NoAnchors,
      Anchors(("Or" :> <<400, 200>>) @@ ("Po" :> <<300, 210>>)),
      Anchors(("Or" :> <<400, 200>>)),
      Anchors(("Or" :> <<250, 250>>) @@ ("Po" :> <<250, 250>>)),
      Anchors(("Or" :> <<790, 300>>) @@ ("Po" :> <<10, 310>>)) }

\* processing times, in microseconds
Durations == {20000, 40000}

MaxRuns == 2

MaxBatch == 2

BatchInputs == { PilInput(GrayImage), PilInput(TooSmallImage), OtherInput }

\* the processing time of every item of a batch, in microseconds
BatchDuration == 30000

\* the image arguments served by both processes
DetInputs == { PilInput(DemoImage), PilInput(GrayImage), PilInput(TooSmallImage) }

BatchMetas == { EmptyMeta, Meta(TRUE, 45, TRUE, "X") }

SeqsUpTo(S, n) == UNION { [1..k -> S] : k \in 0..n }

(***************************************************************************)
(* State machine                                                           *)
(*                                                                         *)
(* ret is the value the last call handed to its caller, NoCall once the    *)
(* caller has taken it; est is the same for a direct predict_landmarks     *)
(* call; peer is a second process built from the same resources and seed,  *)
(* with its own string-hash key, serving the same calls.                   *)
(***************************************************************************)
NoCall ==
    [op |-> "none", raised |-> "None", out |-> << >>, trace |-> << >>,
     args |-> [images |-> << >>, meta_none |-> TRUE, metas |-> << >>,
               anchors |-> NoAnchors]]

NoEst ==
    [called |-> FALSE, exc |-> "None", landmarks |-> EmptyDict, mode |-> "",
     resolved |-> EmptyDict, img |-> Image(0, 0, 0, 0, 0, ""), anchors |-> NoAnchors]

\* no direct call of compute_all or predict is pending
NoUnit == [op |-> "none", exc |-> "None", msg |-> "", out |-> << >>, args |-> << >>]

\* no worker thread has been started
NoThreads == << >>

NoPeer == [hashseed |-> 0, called |-> FALSE, raised |-> "None", result |-> BlankResult]

Construct(cfg, seed, clf_constructed, key) ==
    LET p == CephalometricPipeline(cfg[1], cfg[2], seed, clf_constructed)
    IN  /\ inference_engine = p.inference_engine
        /\ classifier = p.classifier
        /\ init_error = p.init_error
        /\ clf_init_error = p.clf_init_error
        /\ stats = p.stats
        /\ hashseed = key
        /\ ret = NoCall
        /\ est = NoEst
        /\ unit = NoUnit
        /\ threads = NoThreads

Init ==
    /\ \E cfg \in Configs, seed \in Seeds, clf_constructed \in BOOLEAN :
          Construct(cfg, seed, clf_constructed, 0)
    /\ peer = NoPeer

Run(image_input, meta, anchors, total_s) ==
    /\ ret = NoCall
    /\ stats.total_runs < MaxRuns
    /\ LET returned(r) ==
               /\ ret' = [op |-> "run", raised |-> r.raised, out |-> <<r.result>>,
                          trace |-> <<r.trace>>,
                          args |-> [images |-> <<image_input>>, meta_none |-> FALSE,
                                    metas |-> <<meta>>, anchors |-> anchors]]
               /\ stats' = r.stats
       IN  returned(run(Self, image_input, meta, anchors, total_s, hashseed))
    /\ UNCHANGED <<inference_engine, classifier, init_error, clf_init_error, hashseed,
                   est, peer, unit, threads>>

RunBatch(image_list, meta_list, d) ==
    /\ ret = NoCall
    /\ stats.total_runs + Len(image_list) <= MaxRuns
    /\ LET returned(b) ==
               /\ ret' = [op |-> "run_batch", raised |-> b.raised, out |-> b.results,
                          trace |-> b.traces,
                          args |-> [images |-> image_list,
                                    meta_none |-> meta_list.none,
                                    metas |-> IF meta_list.none THEN << >>
                                              ELSE meta_list.list,
                                    anchors |-> NoAnchors]]
               /\ stats' = b.stats
       IN  returned(run_batch(Self, image_list, meta_list,
                              [i \in 1..Len(image_list) |-> d], hashseed))
    /\ UNCHANGED <<inference_engine, classifier, init_error, clf_init_error, hashseed,
                   est, peer, unit, threads>>

\* the caller takes the returned value
Return ==
    /\ ret # NoCall
    /\ ret' = NoCall
    /\ UNCHANGED <<inference_engine, classifier, init_error, clf_init_error, stats,
                   hashseed, est, peer, unit, threads>>

Next ==
    \/ \E i \in ImageInputs, m \in Metas, a \in RunAnchors, d \in Durations : Run(i, m, a, d)
    \/ \E il \in SeqsUpTo(BatchInputs, MaxBatch) :
          \/ RunBatch(il, [none |-> TRUE, list |-> << >>], BatchDuration)
          \/ \E ml \in SeqsUpTo(BatchMetas, MaxBatch) :
                RunBatch(il, [none |-> FALSE, list |-> ml], BatchDuration)
    \/ Return

Spec == Init /\ [][Next]_vars

(***************************************************************************)
(* Direct calls of the estimator                                           *)
(***************************************************************************)
InitEst ==
    /\ \E cfg \in Configs, seed \in Seeds : Construct(cfg, seed, TRUE, 0)
    /\ peer = NoPeer

PredictLandmarks(pil_image, anchors) ==
    /\ inference_engine.present
    /\ est.called = FALSE
    /\ LET returned(pre, r) ==
               est' = [called |-> TRUE, exc |-> r.exc,
                       landmarks |-> IF r.exc = "None" THEN r.val.landmarks ELSE EmptyDict,
                       mode |-> IF r.exc = "None" THEN r.val.mode ELSE "",
                       resolved |-> IF pre.exc = "None" THEN pre.val.landmarks
                                    ELSE EmptyDict,
                       img |-> pil_image, anchors |-> anchors]
       IN  returned(resolve_mode(inference_engine, pil_image, anchors),
                    predict_landmarks(inference_engine, pil_image, anchors))
    /\ UNCHANGED <<inference_engine, classifier, init_error, clf_init_error, stats,
                   hashseed, ret, peer, unit, threads>>

ReturnEst ==
    /\ est.called
    /\ est' = NoEst
    /\ UNCHANGED <<inference_engine, classifier, init_error, clf_init_error, stats,
                   hashseed, ret, peer, unit, threads>>

NextEst ==
    \/ \E img \in Images, a \in AnchorSets : PredictLandmarks(img, a)
    \/ ReturnEst

SpecEst == InitEst /\ [][NextEst]_vars

(***************************************************************************)
(* Two separately started processes serving the same calls                 *)
(***************************************************************************)
InitDet ==
    /\ \E cfg \in Configs, seed \in Seeds, key \in HashSeeds :
          Construct(cfg, seed, TRUE, key)
    /\ \E key \in HashSeeds : peer = [NoPeer EXCEPT !.hashseed = key]

RunInBoth(image_input, meta, anchors, total_s) ==
    /\ ret = NoCall
    /\ stats.total_runs < MaxRuns
    /\ LET returned(r, q) ==
               /\ ret' = [op |-> "run", raised |-> r.raised, out |-> <<r.result>>,
                          trace |-> <<r.trace>>,
                          args |-> [images |-> <<image_input>>, meta_none |-> FALSE,
                                    metas |-> <<meta>>, anchors |-> anchors]]
               /\ peer' = [hashseed |-> peer.hashseed, called |-> TRUE,
                           raised |-> q.raised, result |-> q.result]
               /\ stats' = r.stats
       IN  returned(run(Self, image_input, meta, anchors, total_s, hashseed),
                    run(Self, image_input, meta, anchors, total_s, peer.hashseed))
    /\ UNCHANGED <<inference_engine, classifier, init_error, clf_init_error, hashseed, est,
                   unit, threads>>

ReturnBoth ==
    /\ ret # NoCall
    /\ ret' = NoCall
    /\ peer' = [NoPeer EXCEPT !.hashseed = peer.hashseed]
    /\ UNCHANGED <<inference_engine, classifier, init_error, clf_init_error, stats,
                   hashseed, est, unit, threads>>

NextDet ==
    \/ \E i \in DetInputs, m \in Metas, a \in RunAnchors : RunInBoth(i, m, a, BatchDuration)
    \/ ReturnBoth

SpecDet == InitDet /\ [][NextDet]_vars

(***************************************************************************)
(* Direct calls of compute_all and of the classifier's predict             *)
(***************************************************************************)
\* the template scaled to an 800 x 600 image
BaseLandmarks == scale_normalized_landmarks(MeanShapeLandmarks, 800, 600)

\* the landmark mappings passed to compute_all: A and B displaced horizontally
\* by some pixels, and the landmarks of one set left out
LandmarkInputs ==
    LET Moved(d, name, dx) == [d EXCEPT ![name] = <<@[1] + dx, @[2]>>]
        Shifts == {-30, 0, 30}
        Drops == { {} } \cup { {required_landmarks[i]} : i \in 1..Len(required_landmarks) }
                        \cup { {"Pn"}, {"S", "Me"} }
    IN  { Without(Moved(Moved(BaseLandmarks, "A", a), "B", b), drop) :
            a \in Shifts, b \in Shifts, drop \in Drops }

\* a metrics result whose ANB, in centidegrees, is its SNA - SNB
ClinicalMetrics(anb) ==
    [SNA |-> MetricEntry(82000, load_normal_ranges.SNA),
     SNB |-> MetricEntry(82000 - 10 * anb, load_normal_ranges.SNB),
     ANB |-> MetricEntry(10 * anb, load_normal_ranges.ANB),
     FMA |-> MetricEntry(27000, load_normal_ranges.FMA)]

\* the metrics arguments of predict: full results, and results lacking ANB
MetricsInputs ==
    { ClinicalMetrics(anb) :
        anb \in { -500, -101, -100, -50, 0, 50, 200, 350, 351, 400, 401, 450,
                  550, 551, 700, 1200 } }
        \cup { [m \in {"SNA", "SNB", "FMA"} |-> ClinicalMetrics(700)[m]],
               [m \in {} |-> ClinicalMetrics(700)[m]] }

\* the meta arguments of predict
MetaInputs ==
    { EmptyMeta, Meta(TRUE, 30, FALSE, ""), Meta(FALSE, 0, TRUE, "F") }
        \cup { Meta(TRUE, age, TRUE, sex) :
                 age \in {12, 15, 16, 25, 26, 30, 40, 41, 45},
                 sex \in {"M", "F", "U", "X"} }

\* the arguments of _summarize_quality: landmark mappings of 19, 18, 10, 9, 8
\* and 0 entries, metrics with 0 to 4 values outside their normal range, and
\* classifications by their confidence
QualityInputs ==
    LET keep(n) == [k \in { LANDMARK_NAMES[i] : i \in 1..n } |-> BaseLandmarks[k]]
        entry(m, normal) ==
            MetricEntry(IF normal THEN 5 * (load_normal_ranges[m][1] + load_normal_ranges[m][2])
                        ELSE 10 * load_normal_ranges[m][2] + 1000,
                        load_normal_ranges[m])
        metrics(abnormal) ==
            [SNA |-> entry("SNA", abnormal < 1), SNB |-> entry("SNB", abnormal < 2),
             ANB |-> entry("ANB", abnormal < 3), FMA |-> entry("FMA", abnormal < 4)]
    IN  { <<keep(n), metrics(a), [confidence |-> c]>> :
            n \in {19, 18, 10, 9, 8, 0}, a \in 0..4,
            c \in {0, 250000, 499000, 600000, 699999, 700000, 748750, 750000,
                   950000, 1000000} }

\* the anchor points passed to similarity_transform_2d, in pixels
AnchorPoints == { <<400, 200>>, <<300, 210>>, <<250, 250>>, <<790, 300>> }

InitUnit ==
    /\ \E seed \in Seeds, key \in HashSeeds :
          Construct(<<CanonicalFile, MeanShapeFile>>, seed, TRUE, key)
    /\ peer = NoPeer

ComputeAll(landmarks) ==
    /\ unit.op = "none"
    /\ LET returned(r) ==
               unit' = [op |-> "compute_all", exc |-> r.exc, msg |-> r.msg,
                        out |-> IF r.exc = "None" THEN <<r.val>> ELSE << >>,
                        args |-> <<landmarks>>]
       IN  returned(compute_all(landmarks))
    /\ UNCHANGED <<inference_engine, classifier, init_error, clf_init_error, stats,
                   hashseed, ret, est, peer, threads>>

Predict(metrics, meta) ==
    /\ unit.op = "none"
    /\ classifier.present
    /\ LET returned(r) ==
               unit' = [op |-> "predict", exc |-> r.exc, msg |-> r.msg,
                        out |-> IF r.exc = "None" THEN <<r.val>> ELSE << >>,
                        args |-> <<metrics, meta>>]
       IN  returned(predict(classifier, metrics, meta, hashseed))
    /\ UNCHANGED <<inference_engine, classifier, init_error, clf_init_error, stats,
                   hashseed, ret, est, peer, threads>>

SummarizeQuality(landmarks, clinical_metrics, classification) ==
    /\ unit.op = "none"
    /\ unit' = [op |-> "_summarize_quality", exc |-> "None", msg |-> "",
                out |-> <<_summarize_quality(landmarks, clinical_metrics, classification)>>,
                args |-> <<landmarks, clinical_metrics, classification>>]
    /\ UNCHANGED <<inference_engine, classifier, init_error, clf_init_error, stats,
                   hashseed, ret, est, peer, threads>>

SimilarityTransform(points, src_anchor1, src_anchor2, dst_anchor1, dst_anchor2) ==
    /\ unit.op = "none"
    /\ unit' = [op |-> "similarity_transform_2d", exc |-> "None", msg |-> "",
                out |-> <<similarity_transform_2d(points, src_anchor1, src_anchor2,
                                                  dst_anchor1, dst_anchor2)>>,
                args |-> <<points, src_anchor1, src_anchor2, dst_anchor1, dst_anchor2>>]
    /\ UNCHANGED <<inference_engine, classifier, init_error, clf_init_error, stats,
                   hashseed, ret, est, peer, threads>>

\* the normalized templates handed to adaptive_landmark_adjustment: the mean
\* shape, and mean shapes in which one landmark lies outside the N..Me band
TemplateInputs ==
    { MeanShapeLandmarks,
      [MeanShapeLandmarks EXCEPT !["S"] = <<42000, 18000>>],
      [MeanShapeLandmarks EXCEPT !["Gn"] = <<62000, 72000>>],
      [MeanShapeLandmarks EXCEPT !["Pog'"] = <<73000, 72000>>],
      [MeanShapeLandmarks EXCEPT !["Ar"] = <<38000, 19000>>] }

AdjustLandmarks(normalized_landmarks, pil_image) ==
    /\ unit.op = "none"
    /\ unit' = [op |-> "adaptive_landmark_adjustment", exc |-> "None", msg |-> "",
                out |-> <<adaptive_landmark_adjustment(
                              normalized_landmarks,
                              analyze_image_characteristics(pil_image))>>,
                args |-> <<normalized_landmarks, pil_image>>]
    /\ UNCHANGED <<inference_engine, classifier, init_error, clf_init_error, stats,
                   hashseed, ret, est, peer, threads>>

ReturnUnit ==
    /\ unit.op # "none"
    /\ unit' = NoUnit
    /\ UNCHANGED <<inference_engine, classifier, init_error, clf_init_error, stats,
                   hashseed, ret, est, peer, threads>>

NextUnit ==
    \/ \E landmarks \in LandmarkInputs : ComputeAll(landmarks)
    \/ \E metrics \in MetricsInputs, meta \in MetaInputs : Predict(metrics, meta)
    \/ \E q \in QualityInputs : SummarizeQuality(q[1], q[2], q[3])
    \/ \E points \in {BaseLandmarks, Without(BaseLandmarks, {"Pn", "Or"})},
          s1 \in AnchorPoints, s2 \in AnchorPoints, d1 \in AnchorPoints,
          d2 \in AnchorPoints : SimilarityTransform(points, s1, s2, d1, d2)
    \/ \E t \in TemplateInputs, img \in Images : AdjustLandmarks(t, img)
    \/ ReturnUnit

SpecUnit == InitUnit /\ [][NextUnit]_vars

(***************************************************************************)
(* Concurrent run calls on one pipeline                                    *)
(*                                                                         *)
(* Each worker thread calls run once.  The stages work on the thread's own *)
(* data; _update_stats works on self.stats, with no lock around it.  The   *)
(* interpreter may switch threads between any two reads and writes of the  *)
(* dict, so each statement of _update_stats is taken apart into its reads  *)
(* and writes.  A thread is [pc, success, time, tmp]: tmp is the value it  *)
(* has read and not yet written back.                                      *)
(***************************************************************************)
Workers == 2

\* a thread enters run and goes through its stages, up to _update_stats
Call(image_input, meta, total_s) ==
    /\ Len(threads) < Workers
    /\ LET started(r) ==
               threads' = Append(threads,
                                 [pc |-> IF r.result.success THEN "load_total" ELSE "done",
                                  success |-> r.result.success, time |-> total_s, tmp |-> 0])
       IN  started(run(Self, image_input, meta, NoAnchors, total_s, hashseed))
    /\ UNCHANGED <<inference_engine, classifier, init_error, clf_init_error, stats,
                   hashseed, ret, est, unit, peer>>

\* self.stats["total_runs"] += 1: the read
LoadTotal(t) ==
    /\ threads[t].pc = "load_total"
    /\ threads' = [threads EXCEPT ![t].tmp = stats.total_runs, ![t].pc = "store_total"]
    /\ UNCHANGED <<inference_engine, classifier, init_error, clf_init_error, stats,
                   hashseed, ret, est, unit, peer>>

\* self.stats["total_runs"] += 1: the write
StoreTotal(t) ==
    /\ threads[t].pc = "store_total"
    /\ stats' = [stats EXCEPT !.total_runs = threads[t].tmp + 1]
    /\ threads' = [threads EXCEPT ![t].pc = "store_last"]
    /\ UNCHANGED <<inference_engine, classifier, init_error, clf_init_error,
                   hashseed, ret, est, unit, peer>>

\* self.stats["last_run_time"] = processing_time
StoreLast(t) ==
    /\ threads[t].pc = "store_last"
    /\ stats' = [stats EXCEPT !.has_last = TRUE, !.last_run_time = threads[t].time]
    /\ threads' = [threads EXCEPT ![t].pc = "test_first"]
    /\ UNCHANGED <<inference_engine, classifier, init_error, clf_init_error,
                   hashseed, ret, est, unit, peer>>

\* if self.stats["total_runs"] == 1
TestFirst(t) ==
    /\ threads[t].pc = "test_first"
    /\ threads' = [threads EXCEPT ![t].pc = IF stats.total_runs = 1 THEN "store_first"
                                            ELSE "load_average"]
    /\ UNCHANGED <<inference_engine, classifier, init_error, clf_init_error, stats,
                   hashseed, ret, est, unit, peer>>

\* self.stats["average_processing_time"] = processing_time
StoreFirst(t) ==
    /\ threads[t].pc = "store_first"
    /\ stats' = [stats EXCEPT !.average_processing_time = threads[t].time]
    /\ threads' = [threads EXCEPT ![t].pc = "done"]
    /\ UNCHANGED <<inference_engine, classifier, init_error, clf_init_error,
                   hashseed, ret, est, unit, peer>>

\* alpha * processing_time + (1 - alpha) * self.stats[...]: the read
LoadAverage(t) ==
    /\ threads[t].pc = "load_average"
    /\ threads' = [threads EXCEPT ![t].tmp = stats.average_processing_time,
                                  ![t].pc = "store_average"]
    /\ UNCHANGED <<inference_engine, classifier, init_error, clf_init_error, stats,
                   hashseed, ret, est, unit, peer>>

\* self.stats["average_processing_time"] = ...: the write
StoreAverage(t) ==
    /\ threads[t].pc = "store_average"
    /\ stats' = [stats EXCEPT !.average_processing_time =
                                  RoundDiv(threads[t].time + 9 * threads[t].tmp, 10)]
    /\ threads' = [threads EXCEPT ![t].pc = "done"]
    /\ UNCHANGED <<inference_engine, classifier, init_error, clf_init_error,
                   hashseed, ret, est, unit, peer>>

NextConc ==
    \/ \E i \in {PilInput(GrayImage), PilInput(TooSmallImage)}, d \in Durations :
          Call(i, EmptyMeta, d)
    \/ \E t \in 1..Len(threads) :
          \/ LoadTotal(t)
          \/ StoreTotal(t)
          \/ StoreLast(t)
          \/ TestFirst(t)
          \/ StoreFirst(t)
          \/ LoadAverage(t)
          \/ StoreAverage(t)

SpecConc == InitUnit /\ [][NextConc]_vars

(***************************************************************************)
(* Properties                                                              *)
(***************************************************************************)
RunReturned == ret.op = "run"

\* the record the last run call returned
RunResult == ret.out[1]

\* the stages the last run call entered
RunTrace == ret.trace[1]

\* the image argument of the last run call is an image the validation can open
Opened(image_input) ==
    \/ image_input.kind = "pil"
    \/ (image_input.kind = "path" /\ image_input.exists /\ image_input.decodes)

\* C1: run never propagates an exception: whatever the input and whichever
\* stage fails, the call returns a record whose success field is a boolean.
C1_RunNeverRaises ==
    RunReturned =>
        /\ ret.raised = "None"
        /\ "success" \in RunResult.keys
        /\ RunResult.success \in BOOLEAN

\* C1 (case reached): the classification stage raised a KeyError and run
\* returned a failure record.
C1_ClassificationFailureCaught ==
    /\ RunReturned
    /\ ret.raised = "None"
    /\ ~RunResult.success
    /\ RunResult.error.type = "KeyError"
    /\ RunTrace = <<"preprocess", "landmarks", "metrics", "classification">>

\* C2: every failed run returns success = false with an error descriptor
\* that carries type, message and stage, the stage being the one that failed
\* ("init" when a component failed to initialise).
C2_FailureCarriesStage ==
    (RunReturned /\ ret.raised = "None" /\ ~RunResult.success) =>
        /\ RunResult.error.keys = {"type", "message", "stage"}
        /\ RunResult.error.stage =
               (IF RunTrace = << >> THEN "init" ELSE RunTrace[Len(RunTrace)])

\* C3: no partial successes: a record with success = true has landmarks,
\* clinical_metrics, classification, performance and quality and no error; a
\* record with success = false has an error and none of landmarks,
\* clinical_metrics, classification, quality.
C3_NoPartialSuccess ==
    RunReturned =>
        /\ RunResult.success =>
              /\ {"landmarks", "clinical_metrics", "classification", "performance",
                  "quality"} \subseteq RunResult.keys
              /\ "error" \notin RunResult.keys
              /\ RunResult.landmarks.count > 0
              /\ DOMAIN RunResult.clinical_metrics = MetricNames
        /\ ~RunResult.success =>
              /\ "error" \in RunResult.keys
              /\ RunResult.error.type # ""
              /\ RunResult.keys \cap {"landmarks", "clinical_metrics", "classification",
                                      "quality"} = {}

\* C3 (case reached): a run failed after the landmarks had been estimated and
\* the metrics computed, and one succeeded.
C3_LateFailure ==
    /\ RunReturned
    /\ ~RunResult.success
    /\ Len(RunTrace) = 4
    /\ stats.total_runs = 1

\* C4: run_batch over n images, with a meta list of the same length or none,
\* returns n records in input order, each the record run returns for that item
\* alone: a failing item yields a success = false record and the items after it
\* are still processed.
C4_BatchOneRecordPerItem ==
    (/\ ret.op = "run_batch"
     /\ (ret.args.meta_none \/ Len(ret.args.metas) = Len(ret.args.images))) =>
        /\ ret.raised = "None"
        /\ Len(ret.out) = Len(ret.args.images)
        /\ \A i \in 1..Len(ret.args.images) :
              ret.out[i] = run(Self, ret.args.images[i],
                               IF ret.args.meta_none THEN EmptyMeta ELSE ret.args.metas[i],
                               NoAnchors, BatchDuration, hashseed).result

\* C4 (case reached): a batch of two whose first item is too small and fails
\* and whose second item succeeds.
C4_FailureThenSuccess ==
    /\ ret.op = "run_batch"
    /\ Len(ret.args.images) = 2
    /\ Len(ret.out) = 2
    /\ ret.args.images[1].img.w < MIN_DIMENSION
    /\ ~ret.out[1].success
    /\ ret.out[2].success

\* C5: an image whose width or height is below 100 is rejected at validation
\* with error type ImageTooSmallError, and no later stage is executed.
C5_TooSmallRejectedWithItsOwnType ==
    (/\ RunReturned
     /\ RunTrace # << >>
     /\ Opened(ret.args.images[1])
     /\ (ret.args.images[1].img.w < MIN_DIMENSION
         \/ ret.args.images[1].img.h < MIN_DIMENSION)) =>
        /\ ~RunResult.success
        /\ RunTrace = <<"preprocess">>
        /\ RunResult.error.type = "ImageTooSmallError"

\* C6: two separately started processes given the same resources, seed and
\* inputs return identical landmark coordinates, identical classification
\* probabilities and identical confidence.
C6_SameResultInEveryProcess ==
    (RunReturned /\ peer.called) =>
        /\ peer.raised = ret.raised
        /\ peer.result.success = RunResult.success
        /\ peer.result.landmarks.coordinates = RunResult.landmarks.coordinates
        /\ RunResult.success =>
              /\ peer.result.classification.probabilities
                    = RunResult.classification.probabilities
              /\ peer.result.classification.confidence
                    = RunResult.classification.confidence

\* C7: for an image the pipeline accepts, in every mode and with any anchors,
\* every coordinate predict_landmarks returns lies in [margin, width - margin]
\* x [margin, height - margin].
C7_CoordinatesWithinMargin ==
    (/\ est.called
     /\ est.exc = "None"
     /\ est.img.w >= MIN_DIMENSION
     /\ est.img.h >= MIN_DIMENSION) =>
        \A n \in DOMAIN est.landmarks :
            /\ ClampMargin <= est.landmarks[n][1]
            /\ est.landmarks[n][1] <= est.img.w - ClampMargin
            /\ ClampMargin <= est.landmarks[n][2]
            /\ est.landmarks[n][2] <= est.img.h - ClampMargin

\* C7 (case reached): an anchor correction threw a landmark beyond the right
\* edge and the clamp brought it back to width - margin.
C7_ClampedAtTheEdge ==
    /\ est.called
    /\ est.exc = "None"
    /\ est.mode = "manual_corrected"
    /\ est.img.w >= MIN_DIMENSION
    /\ \E n \in DOMAIN est.landmarks :
          /\ est.resolved[n][1] > est.img.w
          /\ est.landmarks[n][1] = est.img.w - ClampMargin

\* C8: every landmark set predict_landmarks returns has exactly the 19 defined
\* names, whatever template resources the constructor accepted.
C8_AlwaysNineteenNames ==
    (est.called /\ est.exc = "None") => DOMAIN est.landmarks = NameSet

C10_AnchorsAlwaysCorrect ==
    (est.called /\ est.exc = "None" /\ anchors_given(est.anchors)) =>
        est.mode = "manual_corrected"

\* C10 (what the code does): manual_corrected is reported exactly when anchors for both Or
\* and Po are supplied and the image's hash differs from the reference's; the
\* corrected set keeps every name of the template and, unless the two supplied
\* points coincide, has Or on the supplied Or and Po within a pixel of the
\* supplied Po.
C10_AnchorsCorrectAdaptiveOnly ==
    (est.called /\ est.exc = "None") =>
        /\ est.mode = "manual_corrected" <=>
              /\ anchors_given(est.anchors)
              /\ est.img.sha # inference_engine.demo_config.image_sha256
        /\ est.mode = "manual_corrected" =>
              /\ DOMAIN est.resolved = DOMAIN inference_engine.mean_shape.landmarks
              /\ est.anchors.pts["Or"] # est.anchors.pts["Po"] =>
                    /\ est.resolved["Or"] = est.anchors.pts["Or"]
                    /\ Abs(est.resolved["Po"][1] - est.anchors.pts["Po"][1]) <= 1
                    /\ Abs(est.resolved["Po"][2] - est.anchors.pts["Po"][2]) <= 1

\* C10 (case reached): an image other than the reference, with anchors for Or
\* and Po, was corrected onto the supplied points.
C10_CorrectedOntoAnchors ==
    /\ est.called
    /\ est.exc = "None"
    /\ est.mode = "manual_corrected"
    /\ est.anchors.pts["Or"] # est.anchors.pts["Po"]
    /\ est.resolved["Or"] = est.anchors.pts["Or"]
    /\ Cardinality(DOMAIN est.resolved) = FULL_LANDMARK_COUNT

\* the last direct call was compute_all and it returned a metrics result
MetricsReturned == unit.op = "compute_all" /\ unit.exc = "None"

\* the metrics result the last compute_all call returned
MetricsResult == unit.out[1]

\* C11: in every metrics result compute_all returns, the reported ANB value
\* equals the reported SNA value minus the reported SNB value exactly, the
\* values being the ones rounded to two decimals.
C11_ReportedAnbIsDifference ==
    MetricsReturned =>
        MetricsResult.ANB.value = MetricsResult.SNA.value - MetricsResult.SNB.value

\* C11, what the code guarantees: ANB is the difference of the unrounded
\* angles, rounded on its own, so the reported values agree within 0.01.
C11_ReportedAnbWithinOneHundredth ==
    MetricsReturned =>
        Abs(MetricsResult.ANB.value
            - (MetricsResult.SNA.value - MetricsResult.SNB.value)) <= 1

\* the required landmarks the mapping passed to the last compute_all call lacks
AbsentLandmarks ==
    { required_landmarks[i] : i \in 1..Len(required_landmarks) } \ DOMAIN unit.args[1]

\* C12: when the mapping passed to compute_all lacks one of S, N, A, B, Po, Or,
\* Go, Me, the call fails with a MissingLandmarkError naming an absent key,
\* and returns no metrics (no angle is computed on a substituted coordinate).
C12_MissingLandmarkRejectedWithItsOwnType ==
    (unit.op = "compute_all" /\ AbsentLandmarks # {}) =>
        /\ unit.exc = "MissingLandmarkError"
        /\ unit.msg \in AbsentLandmarks
        /\ unit.out = << >>

\* C12, what the code guarantees: the same rejection, raised as a ValueError.
C12_MissingLandmarkRejectedAsValueError ==
    (unit.op = "compute_all" /\ AbsentLandmarks # {}) =>
        /\ unit.exc = "ValueError"
        /\ unit.msg \in AbsentLandmarks
        /\ unit.out = << >>

\* the last direct call was predict and it returned a classification
PredictReturned == unit.op = "predict" /\ unit.exc = "None"

\* the classification the last predict call returned
Classification == unit.out[1]

\* C13: whenever predict returns, the final probability vector has three
\* components, each >= 0, that sum to 1 (each component is carried to 1e-6,
\* so the sum is within 2e-6 of 1), and the confidence lies in [0, 1].
C13_ProbabilitiesFormADistribution ==
    PredictReturned =>
        LET p == Classification.probabilities
        IN  /\ Len(p) = 3
            /\ \A i \in 1..3 : p[i] >= 0
            /\ Abs(p[1] + p[2] + p[3] - Ppm) <= 2
            /\ Classification.confidence >= 0
            /\ Classification.confidence <= Ppm

\* C13: predict returned a vector fused from two stages that disagree, with
\* every class given a positive probability.
C13_FusedFromDisagreeingStages ==
    /\ PredictReturned
    /\ Classification.components.rule_based.class
           # Classification.components.model_based.class
    /\ \A i \in 1..3 : Classification.probabilities[i] > 0

PredictMetrics == unit.args[1]

PredictMeta == unit.args[2]

\* the age and the sex the last predict call works with
PatientAge == IF PredictMeta.has_age THEN PredictMeta.age ELSE 25

PatientSex == IF PredictMeta.has_sex THEN PredictMeta.sex ELSE "U"

\* the ANB range of the table for the patient's age bracket and sex
PatientRange ==
    LET bracket == IF PatientAge <= 15 THEN "child"
                   ELSE IF PatientAge <= 25 THEN "young_adult"
                   ELSE IF PatientAge <= 40 THEN "adult"
                   ELSE "middle_aged"
    IN  AGE_SEX_NORMS.ANB[bracket][IF PatientSex \in {"M", "F"} THEN PatientSex
                                   ELSE "default"]

\* C15: for the personalized range [min, max], the rule stage returns class II
\* iff ANB > max + 0.5, class III iff ANB < min - 0.5 and class I otherwise; its
\* confidence is min(0.95, 0.6 + 0.1 x distance beyond the threshold) for II
\* and III and max(0.6, 0.9 - 0.3 x |ANB - center| / halfWidth) for I, always
\* within [0.6, 0.95]; ANB 7.0 for a 30-year-old male gives class II.
C15_RuleStageThresholds ==
    (PredictReturned /\ "ANB" \in DOMAIN PredictMetrics) =>
        LET anb == PredictMetrics.ANB.value
            min_norm == PatientRange[1]
            max_norm == PatientRange[2]
            rule == Classification.components.rule_based
        IN  /\ rule.class = 1 <=> anb > max_norm + 50
            /\ rule.class = 2 <=> anb < min_norm - 50
            /\ rule.class = 0 <=> (anb >= min_norm - 50 /\ anb <= max_norm + 50)
            /\ rule.class = 1 =>
                  rule.confidence = Min(950000, 600000 + 1000 * (anb - (max_norm + 50)))
            /\ rule.class = 2 =>
                  rule.confidence = Min(950000, 600000 + 1000 * ((min_norm - 50) - anb))
            /\ rule.class = 0 =>
                  rule.confidence =
                      Max(600000, 900000 - (300000 * Abs(2 * anb - (min_norm + max_norm)))
                                              \div (max_norm - min_norm))
            /\ rule.confidence >= 600000
            /\ rule.confidence <= 950000
            /\ (anb = 700 /\ PatientAge = 30 /\ PatientSex = "M") =>
                  (rule.class = 1 /\ rule.confidence >= 600000)

\* C15: predict returned for an ANB that sits exactly on the class II
\* threshold of a 30-year-old male (3.5 + 0.5), and the rule stage said class I.
C15_ThresholdItselfIsClassI ==
    /\ PredictReturned
    /\ "ANB" \in DOMAIN PredictMetrics
    /\ PredictMetrics.ANB.value = 400
    /\ PredictMeta = Meta(TRUE, 30, TRUE, "M")
    /\ Classification.components.rule_based.class = 0

\* C16: the personalized range is the one of the patient's age bracket (<= 15,
\* 16-25, 26-40, 41+) and sex M or F; for an absent sex, "U" or any other
\* value the bracket's default range is used, and predict returns a
\* classification instead of failing.
C16_UnknownSexFallsBackToDefault ==
    (unit.op = "predict" /\ classifier.present) =>
        /\ unit.exc = "None"
        /\ Classification.personalized_analysis.normal_range_anb = PatientRange

\* C16, what the code guarantees: the range is selected as stated, and predict
\* returns when the sex is M, F, "U" or absent; any other sex value selects the
\* default range in the rule stage and then fails with a KeyError.
C16_FallbackOnlyForKnownCodes ==
    unit.op = "predict" =>
        /\ PatientSex \in {"M", "F", "U"} =>
              /\ unit.exc = "None"
              /\ Classification.personalized_analysis.normal_range_anb = PatientRange
        /\ PatientSex \notin {"M", "F", "U"} =>
              /\ unit.exc = "KeyError"
              /\ unit.msg = PatientSex
              /\ unit.out = << >>

\* C17: when the metrics passed to predict do not contain ANB, the call fails
\* with a MissingMetricError; no default ANB is substituted and no class is
\* returned.
C17_MissingAnbIsFatal ==
    (unit.op = "predict" /\ "ANB" \notin DOMAIN PredictMetrics) =>
        /\ unit.exc = "MissingMetricError"
        /\ unit.out = << >>

\* C17, what the code does: an absent ANB is replaced by 2.0 degrees and a
\* class is returned for it (unless the sex value makes the call fail).
C17_MissingAnbReplacedByDefault ==
    (unit.op = "predict" /\ "ANB" \notin DOMAIN PredictMetrics
        /\ PatientSex \in {"M", "F", "U"}) =>
        /\ unit.exc = "None"
        /\ Classification.anb_value = MetricDefault.ANB
        /\ Classification.predicted_class \in 0..2

\* how far the ANB passed to the last predict call lies outside the patient's
\* range, in centidegrees (0 inside the range, and when no ANB was passed)
AnbExcess ==
    IF "ANB" \notin DOMAIN PredictMetrics THEN 0
    ELSE Max(0, Max(PatientRange[1] - PredictMetrics.ANB.value,
                    PredictMetrics.ANB.value - PatientRange[2]))

\* C18: the weights (rule, statistical) are (0.8, 0.2) when the personalized
\* ANB deviation (excess / range width) exceeds 1.0, (0.7, 0.3) when it exceeds
\* 0.5 but not 1.0, and (0.6, 0.4) otherwise; for age <= 15 a further 0.1 moves
\* from the rule weight to the statistical weight; both weights are positive
\* and sum to 1.
C18_DynamicWeights ==
    PredictReturned =>
        LET width == PatientRange[2] - PatientRange[1]
            base == IF AnbExcess > width THEN <<800000, 200000>>
                    ELSE IF 2 * AnbExcess > width THEN <<700000, 300000>>
                    ELSE <<600000, 400000>>
            shift == IF PatientAge <= 15 THEN 100000 ELSE 0
            w == Classification.model_weights
        IN  /\ w.rule_based = base[1] - shift
            /\ w.ml_based = base[2] + shift
            /\ w.rule_based > 0
            /\ w.ml_based > 0
            /\ w.rule_based + w.ml_based = Ppm

\* C18: predict returned for a child whose ANB deviation exceeds 1.0: the
\* weights are (0.8, 0.2) with 0.1 moved, i.e. (0.7, 0.3).
C18_ChildWithLargeDeviation ==
    /\ PredictReturned
    /\ PatientAge <= 15
    /\ AnbExcess > PatientRange[2] - PatientRange[1]
    /\ Classification.model_weights = [rule_based |-> 700000, ml_based |-> 300000]

\* the statistics expected after the calls that returned the records
\* outs[i..], starting from st: a success counts, sets the last time and
\* moves the average (the first one sets it); a failure changes nothing.
\* The time of a successful run is the total time its record reports.
RECURSIVE StatsAfter(_, _, _)
StatsAfter(st, outs, i) ==
    IF i > Len(outs) THEN st
    ELSE IF ~outs[i].success THEN StatsAfter(st, outs, i + 1)
    ELSE StatsAfter(
             [total_runs |-> st.total_runs + 1,
              has_last |-> TRUE,
              last_run_time |-> 10 * outs[i].performance,
              average_processing_time |->
                  IF st.total_runs = 0 THEN 10 * outs[i].performance
                  ELSE RoundDiv(10 * outs[i].performance
                                + 9 * st.average_processing_time, 10)],
             outs, i + 1)

\* C19: every step of the pipeline leaves the statistics as the records it
\* returned dictate: total_runs grows by the number of runs that returned
\* success=true (so it always equals the number of successful runs since
\* construction), a failed run changes nothing, the first success sets the
\* average to its time, a later one to 0.1 x time + 0.9 x previous average,
\* and no other step (taking the result) resets or changes them.
C19_StatsFollowSuccessfulRuns ==
    [][stats' = StatsAfter(stats, ret'.out, 1)]_vars

\* C19: a second successful run, slower than the first one (40 ms after
\* 20 ms), has moved the average to 0.1 x 40 + 0.9 x 20 = 22 ms.
C19_SecondRunMovesAverage ==
    /\ RunReturned
    /\ RunResult.success
    /\ stats.total_runs = 2
    /\ stats.last_run_time = 40000
    /\ stats.average_processing_time = 22000

\* the constructor completed although the estimator or the classifier failed
\* to construct
ComponentFailed == ~inference_engine.present \/ ~classifier.present

\* C20: on a pipeline whose estimator or classifier failed to construct,
\* every run, called directly or for an item of a batch, returns success=false
\* with a ComponentMissing error at stage init, enters no stage, and leaves
\* the statistics as constructed (so no run on that instance ever succeeds).
C20_FailedComponentReportedAsMissing ==
    ComponentFailed =>
        /\ stats = InitialStats
        /\ ret.op = "run" => ret.raised = "None"
        /\ \A i \in 1..Len(ret.out) :
              /\ ~ret.out[i].success
              /\ ret.out[i].error.type \in {"ComponentMissing", "ComponentMissingError"}
              /\ ret.out[i].error.stage = "init"
              /\ ret.trace[i] = << >>

\* C20, what the code guarantees: the same, with the error type
\* InferenceInitError when it is the estimator that failed to construct and
\* ComponentMissing when only the classifier did.
C20_FailedComponentReportedAtInit ==
    ComponentFailed =>
        /\ stats = InitialStats
        /\ ret.op = "run" => ret.raised = "None"
        /\ \A i \in 1..Len(ret.out) :
              /\ ~ret.out[i].success
              /\ ret.out[i].error.type =
                    (IF inference_engine.present THEN "ComponentMissing"
                     ELSE "InferenceInitError")
              /\ ret.out[i].error.stage = "init"
              /\ ret.trace[i] = << >>

\* C21: an estimator exists only when both reference resources carry their
\* landmarks mapping (construction fails otherwise), so a predict_landmarks
\* call on a constructed estimator never fails because of a template defect.
C21_ConstructedEstimatorHasBothTemplates ==
    est.called =>
        /\ inference_engine.demo_config.has_landmarks
        /\ inference_engine.mean_shape.has_landmarks
        /\ est.exc = "None"

\* C21, what the code guarantees: construction fails exactly when a resource
\* is missing or is not JSON; a resource that parses without a landmarks
\* mapping is accepted, and predict_landmarks then fails with a KeyError as
\* soon as it reads that mapping.
C21_TemplateDefectFoundAtFirstUse ==
    /\ inference_engine.present <=>
          (inference_engine.demo_config.status = "ok"
           /\ inference_engine.mean_shape.status = "ok")
    /\ (est.called /\ ~intelligent_hash_matching(est.img, inference_engine.demo_config.image_sha256)
          /\ ~inference_engine.mean_shape.has_landmarks) =>
          (est.exc = "KeyError" /\ est.landmarks = EmptyDict)

\* the last direct call was _summarize_quality
QualityReturned == unit.op = "_summarize_quality"

\* the summary it returned
QualitySummary == unit.out[1]

\* 0.3 x landmark score + 0.3 x metrics score + 0.4 x classification score of
\* the summary's component scores
WeightedScore ==
    (3 * QualitySummary.component_scores.landmarks
     + 3 * QualitySummary.component_scores.metrics
     + 4 * QualitySummary.component_scores.classification) \div 10

TransformReturned == unit.op = "similarity_transform_2d"

\* C23: similarity_transform_2d with each destination anchor equal to its
\* source anchor (two distinct anchors) returns every point of the input
\* mapping with the same coordinates, under the same set of names.
C23_SameAnchorsIsIdentity ==
    (TransformReturned /\ unit.args[4] = unit.args[2] /\ unit.args[5] = unit.args[3]
        /\ unit.args[2] # unit.args[3]) =>
        /\ DOMAIN unit.out[1] = DOMAIN unit.args[1]
        /\ \A n \in DOMAIN unit.args[1] : unit.out[1][n] = unit.args[1][n]

\* C23: the transform was applied to the 19 landmarks with two distinct
\* anchors mapped onto themselves, and returned them as they were.
C23_IdentityOnFullTemplate ==
    /\ TransformReturned
    /\ unit.args[4] = unit.args[2]
    /\ unit.args[5] = unit.args[3]
    /\ unit.args[2] # unit.args[3]
    /\ Cardinality(DOMAIN unit.args[1]) = 19
    /\ unit.out[1] = unit.args[1]

\* the stages of a run, in the order of the code
StageOrder == <<"preprocess", "landmarks", "metrics", "classification", "quality", "stats">>

\* C24: within one run the stages are entered in the order validate image,
\* estimate landmarks, compute metrics, classify, quality summary, update
\* statistics, each only after all earlier ones completed: the stages entered
\* are a prefix of that order, the whole of it exactly when the run succeeds,
\* and a failed run stops in one of the first four stages, so it enters no
\* later stage and does not update the statistics.
C24_StagesInOrder ==
    (RunReturned /\ ret.raised = "None") =>
        /\ Len(RunTrace) <= Len(StageOrder)
        /\ \A i \in 1..Len(RunTrace) : RunTrace[i] = StageOrder[i]
        /\ RunResult.success <=> RunTrace = StageOrder
        /\ ~RunResult.success =>
              /\ Len(RunTrace) <= 4
              /\ \A i \in 1..Len(RunTrace) : RunTrace[i] \notin {"quality", "stats"}

\* C24: a run whose metrics stage failed: it entered validation, landmark
\* estimation and metrics, and nothing after them.
C24_StoppedAtMetrics ==
    /\ RunReturned
    /\ ~RunResult.success
    /\ RunResult.error.type = "ValueError"
    /\ RunTrace = <<"preprocess", "landmarks", "metrics">>

\* every worker thread has been started and has returned from run
AllReturned ==
    /\ Len(threads) = Workers
    /\ \A t \in 1..Len(threads) : threads[t].pc = "done"

\* the number of concurrent calls that returned success=true
Succeeded == Cardinality({ t \in 1..Len(threads) : threads[t].success })

\* C25: when several run calls execute concurrently on one pipeline, the
\* update of the statistics is protected: under every interleaving, once all
\* calls have returned, total_runs equals the number of calls that returned
\* success=true.
C25_NoLostUpdate ==
    AllReturned => stats.total_runs = Succeeded

\* C25, what the code guarantees: the counter never exceeds the number of
\* successful calls and is at least 1 once one of them has returned; in
\* between, interleaved updates can be lost.
C25_CounterWithinBounds ==
    AllReturned =>
        /\ stats.total_runs <= Succeeded
        /\ Succeeded > 0 => stats.total_runs >= 1

\* C26: similarity_transform_2d with coincident source anchors or coincident
\* destination anchors returns the points unchanged and raises nothing; so a
\* predict_landmarks call with anchors whose Or and Po coincide has the same
\* landmarks before jitter as the same call without anchors.
C26_DegenerateAnchorsAreNoOp ==
    (est.called /\ est.exc = "None") =>
        /\ \A a \in AnchorPoints, b \in AnchorPoints, c \in AnchorPoints :
              /\ similarity_transform_2d(est.resolved, a, a, b, c) = est.resolved
              /\ similarity_transform_2d(est.resolved, a, b, c, c) = est.resolved
        /\ (anchors_given(est.anchors) /\ est.anchors.pts["Or"] = est.anchors.pts["Po"]) =>
              est.resolved = resolve_mode(inference_engine, est.img, NoAnchors).val.landmarks

\* C26: predict_landmarks ran the anchor correction on an image other than
\* the reference image with Or and Po given at the same pixel, and the
\* landmarks before jitter are those of the scaled template.
C26_CoincidentAnchorsGiven ==
    /\ est.called
    /\ est.exc = "None"
    /\ est.mode = "manual_corrected"
    /\ est.anchors.pts["Or"] = est.anchors.pts["Po"]
    /\ est.resolved = resolve_mode(inference_engine, est.img, NoAnchors).val.landmarks

AdjustReturned == unit.op = "adaptive_landmark_adjustment"

\* C27: after adaptive_landmark_adjustment (which ends with the anatomical-
\* consistency pass), no landmark of the result has a smaller y than N and
\* none has a larger y than Me, for every template and every image.
C27_AllLandmarksBetweenNasionAndMenton ==
    AdjustReturned =>
        \A n \in DOMAIN unit.out[1] :
            /\ unit.out[1][n][2] >= unit.out[1]["N"][2]
            /\ unit.out[1][n][2] <= unit.out[1]["Me"][2]

\* C27 (checked landmarks only): S, Or and Po are never above N and Go, B,
\* Pog and Gn are never below Me after the pass.
C27_CheckedLandmarksBetweenNasionAndMenton ==
    AdjustReturned =>
        /\ \A n \in {"S", "Or", "Po"} : unit.out[1][n][2] >= unit.out[1]["N"][2]
        /\ \A n \in {"Go", "B", "Pog", "Gn"} : unit.out[1][n][2] <= unit.out[1]["Me"][2]

\* a pipeline constructed anew from the resources, seed and configuration of
\* the present one
FreshPipeline ==
    CephalometricPipeline(inference_engine.demo_config, inference_engine.mean_shape,
                          inference_engine.seed, classifier.present)

\* the meta argument of item i of the call that returned
MetaOf(r, i) == IF r.args.meta_none THEN EmptyMeta ELSE r.args.metas[i]

PredictBias ==
    LET bias(features) == anb_bias(features.ANB, ANB_personalized_deviation(features))
    IN  bias(extract_enhanced_features(PredictMetrics, PredictMeta))

\* C29: in the statistical stage, for the range [min, max] of the patient's
\* age bracket and sex: when the personalized ANB deviation exceeds 0.5 the
\* bias goes to class II exactly when ANB > max and to class III exactly when
\* ANB < min, and class I is biased only when the deviation is below 0.1.
\* Stated for the ANB of the call and, for the same patient, for every ANB
\* from -10.00 to 15.00 degrees.
C29_BiasFollowsPersonalizedRange ==
    (PredictReturned /\ "ANB" \in DOMAIN PredictMetrics) =>
        LET min_norm == PatientRange[1]
            max_norm == PatientRange[2]
            holds(anb, bias, excess) ==
                /\ 2 * excess > max_norm - min_norm =>
                      /\ bias[2] > 0 <=> anb > max_norm
                      /\ bias[3] > 0 <=> anb < min_norm
                      /\ bias[1] = 0
                /\ bias[1] > 0 => 10 * excess < max_norm - min_norm
        IN  /\ holds(PredictMetrics.ANB.value, PredictBias, AnbExcess)
            /\ \A anb \in -1000..1500 :
                  holds(anb,
                        anb_bias(anb, calculate_personalized_deviation(
                                          anb, "ANB", PatientAge, PatientSex)),
                        Max(0, Max(min_norm - anb, anb - max_norm)))

\* C29: predict returned for a middle-aged man (range -0.5 to 3.0) whose ANB
\* of -5.0 lies below the range minimum by more than half its width; the
\* bias went to class III.
C29_BelowMinimumBiasedToClassThree ==
    /\ PredictReturned
    /\ "ANB" \in DOMAIN PredictMetrics
    /\ PatientAge = 45 /\ PatientSex = "M"
    /\ PredictMetrics.ANB.value < PatientRange[1]
    /\ 2 * AnbExcess > PatientRange[2] - PatientRange[1]
    /\ PredictBias[3] > 0

\* every probability vector over the three classes in steps of 0.05
ProbabilityVectors ==
    { <<50000 * ab[1], 50000 * ab[2], Ppm - 50000 * (ab[1] + ab[2])>> :
        ab \in { c \in (0..20) \X (0..20) : c[1] + c[2] <= 20 } }

\* the rule stage's result and the weights of the last predict call
RuleStage == Classification.components.rule_based

FusionWeights ==
    <<Classification.model_weights.rule_based, Classification.model_weights.ml_based>>

\* C30: the rule weight is at least 0.7 exactly when the personalized ANB
\* deviation exceeds 0.5 with age > 15 or exceeds 1.0 at any age; then the
\* final class is the rule-stage class, and would be for every statistical
\* probability vector (all vectors in steps of 0.05).  With a smaller rule
\* weight and the rule confidence at its floor of 0.6, some statistical
\* vector makes the final class differ from the rule-stage class.
C30_RuleDominance ==
    PredictReturned =>
        LET width == PatientRange[2] - PatientRange[1]
            fused_class(p) == argmax(fused_probabilities(RuleStage, p, FusionWeights))
        IN  /\ FusionWeights[1] >= 700000 <=>
                  \/ 2 * AnbExcess > width /\ PatientAge > 15
                  \/ AnbExcess > width
            /\ FusionWeights[1] >= 700000 =>
                  /\ Classification.predicted_class = RuleStage.class
                  /\ \A p \in ProbabilityVectors : fused_class(p) = RuleStage.class
            /\ (FusionWeights[1] < 700000 /\ RuleStage.confidence = 600000) =>
                  \E p \in ProbabilityVectors : fused_class(p) # RuleStage.class

\* C30: predict returned with a rule weight of at least 0.7 while the
\* statistical stage favoured another class; the final class is the
\* rule-stage class.
C30_DominantOverDisagreeingStage ==
    /\ PredictReturned
    /\ FusionWeights[1] >= 700000
    /\ Classification.components.model_based.class # RuleStage.class
    /\ Classification.predicted_class = RuleStage.class

\* C30 (smaller weight): predict returned with a rule weight below 0.7 and a
\* final class that is not the rule-stage class.
C30_StatisticalStageOverrode ==
    /\ PredictReturned
    /\ FusionWeights[1] < 700000
    /\ Classification.predicted_class # RuleStage.class

====
